---- MODULE Spec2Model ----
(***************************************************************************)
(* A model of the linky-backend core: the in-memory transaction manager,   *)
(* the in-memory user and credentials repositories, the auth and user      *)
(* domain services and the use cases that orchestrate them.                *)
(*                                                                         *)
(* Asynchronous code is cut at its await points: one action is one         *)
(* synchronous segment of a handler, run by the single event-loop thread.  *)
(***************************************************************************)
EXTENDS Integers, Sequences, FiniteSets, TLC

\* ------------------------------------------------------------------ bounds
\* transactions ever begun (the handles are the sequence 1..Len(handles))
MaxTx == 3
\* user ids ever generated by uuidv4() / randomUUID()
MaxUsers == 2
\* executions that may be in flight at once
MaxProcs == 2
\* executions that go past the validation of their input
MaxExecutions == 2
\* executions of the account operations that go past validation
MaxAccountExecutions == 3
\* advances of the clock, twenty-four hours each
MaxTicks == 2
MaxUserExecutions == 3
MaxCreatedAtMs == 4
MaxSkewMs == 2

VARIABLES
    handles,             \* every handle beginTransaction has returned: its flags
    activeTransactions,  \* ids registered in InMemoryTransactionManager.activeTransactions
    timers,              \* ids with a pending setTimeout(..., 100) cleanup
    lastCall,            \* the last call a client made on the manager, and what it saw
    credentials,         \* InMemoryUserCredentialsRepository.credentials: userId -> record
    emailToUserId,       \* InMemoryUserCredentialsRepository.emailToUserId
    users,               \* InMemoryUserRepository.users, in insertion order
    procs,               \* the executions in flight, one per slot
    returned,            \* the execution that returned in the last step, with its result
    uuids,               \* how many user ids uuidv4()/randomUUID() have produced
    now,                 \* Date.now(), in milliseconds
    started,             \* executions that went past the validation of their input
    registered,          \* email and user id of every RegisterUser execution that returned success
    deactivated,         \* user ids for which deactivateUser has returned with no reactivateUser called since or in flight
    links,               \* InMemoryLinkRepository.links: id -> Link
    transactionActive,   \* InMemoryLinkRepository.transactionActive
    transactionLinks     \* InMemoryLinkRepository.transactionLinks: a Map, or null

linkVars == <<links, transactionActive, transactionLinks>>
txVars == <<handles, activeTransactions, timers>>
repoVars == <<credentials, emailToUserId, users>>
appVars == <<credentials, emailToUserId, users, procs, returned, uuids, now,
            started, registered,
                   deactivated, linkVars>>
vars == <<handles, activeTransactions, timers, lastCall, credentials,
          emailToUserId, users, procs, returned, uuids, now, started,
          registered,
                   deactivated, linkVars>>

\* undefined / null: for a string, an object and a Date
None == "none"
Null == [null |-> TRUE]
NoDate == 0 - 1

\* the message of an Error: its text with the value interpolated into it
Message(text, arg) == [text |-> text, arg |-> arg]

\* ------------------------------------------------------------ value objects

\* The strings the inputs are drawn from.  "" is a missing field.
RawEmails == {"", "a.x.io", "a@x.io", "A@x.io", "b@x.io"}
PlainPasswords == {"", "short", "Passw0rd", "Secret1x"}
RegisterPasswords == {"", "short", "Passw0rd"}
RawNames == {"", "J", "John Doe"}
RawRoles == {None, "admin", "root"}
RawPlans == {None, "premium", "gold"}

\* String.prototype.toLowerCase / toUpperCase on these strings
ToLowerCase(s) == IF s = "A@x.io" THEN "a@x.io" ELSE s
ToUpperCase(s) ==
    CASE s = "admin" -> "ADMIN"
      [] s = "root" -> "ROOT"
      [] s = "premium" -> "PREMIUM"
      [] s = "gold" -> "GOLD"
      [] OTHER -> s

\* new Email(value): the message of the error thrown, or Null
EmailError(value) ==
    IF value = "" THEN Message("Email cannot be empty", "")
    ELSE IF value = "a.x.io" THEN Message("Email must be in a valid format", "")
    ELSE Null

\* Email.getValue()
EmailCaseSensitiveValue(value) == value
EmailValue(value) == ToLowerCase(value)

\* Password.create(plainPassword): the message of the error thrown, or Null
PasswordError(plain) ==
    IF plain = "" THEN Message("Password cannot be empty", "")
    ELSE IF plain = "short"
    THEN Message("Password must be at least 8 characters long", "")
    ELSE Null

\* bcrypt.hashSync(plain, 12) and bcrypt.compareSync(plain, hash): the hash
\* stands for its plaintext, the salt is left out
PasswordCreate(plain) == <<"bcrypt", plain>>
PasswordCompare(hash, plain) == hash[2] = plain

\* new UserName(value)
UserNameError(value) ==
    IF value = "" THEN Message("User name cannot be empty", "")
    ELSE IF value = "J"
    THEN Message("User name must be at least 2 characters long", "")
    ELSE Null

\* UserRole.create(role) / UserRole.user()
UserRoleError(role) ==
    IF role # None /\ ToUpperCase(role) \notin {"ADMIN", "USER"}
    THEN Message("Invalid user role", ToUpperCase(role)) ELSE Null
UserRoleOfAlwaysUser(role) == "USER"
UserRoleOf(role) == IF role = None THEN "USER" ELSE ToUpperCase(role)

\* UserPlan.create(plan) / UserPlan.standard()
UserPlanError(plan) ==
    IF plan # None /\ ToUpperCase(plan) \notin {"STANDARD", "PREMIUM"}
    THEN Message("Invalid user plan", ToUpperCase(plan)) ELSE Null
UserPlanOf(plan) == IF plan = None THEN "STANDARD" ELSE ToUpperCase(plan)

\* ---------------------------------------------------------------- entities

\* UserCredentials.create(email, password, userId)
UserCredentialsCreate(email, password, userId) ==
    [email |-> email, password |-> password, userId |-> userId,
     isActive |-> TRUE, lastLoginAt |-> NoDate, createdAt |-> now,
     updatedAt |-> now]

\* UserCredentials.updateLastLogin()
updateLastLoginDroppingCreatedAt(c) ==
    [c EXCEPT !.lastLoginAt = now, !.updatedAt = now, !.createdAt = NoDate]
updateLastLogin(c) == [c EXCEPT !.lastLoginAt = now, !.updatedAt = now]

\* UserCredentials.updatePassword(newPassword) / deactivate() / activate()
updatePassword(c, newPassword) == [c EXCEPT !.password = newPassword, !.updatedAt = now]
deactivateResettingLogin(c) ==
    [c EXCEPT !.isActive = FALSE, !.updatedAt = now, !.lastLoginAt = NoDate]
deactivate(c) == [c EXCEPT !.isActive = FALSE, !.updatedAt = now]
activate(c) == [c EXCEPT !.isActive = TRUE, !.updatedAt = now]

\* new User(id, email, name, createdAt, profileImage, isActive, isVerified, role, plan)
NewUser(id, email, name, profileImage, isActive, isVerified, role, plan) ==
    [id |-> id, email |-> email, name |-> name, createdAt |-> now,
     profileImage |-> profileImage, isActive |-> isActive,
     isVerified |-> isVerified, role |-> role, plan |-> plan]

\* ------------------------------------------------------------ repositories

\* InMemoryUserCredentialsRepository.findByEmail / findByUserId
CredentialsFindByEmail(email) ==
    IF EmailValue(email) \notin DOMAIN emailToUserId THEN Null
    ELSE IF emailToUserId[EmailValue(email)] \notin DOMAIN credentials THEN Null
    ELSE credentials[emailToUserId[EmailValue(email)]]

CredentialsFindByUserId(userId) ==
    IF userId \in DOMAIN credentials THEN credentials[userId] ELSE Null

\* InMemoryUserCredentialsRepository.save: both maps are written, whatever
\* the transaction
CredentialsSaveBuffered(c) == UNCHANGED <<credentials, emailToUserId>>
CredentialsSave(c) ==
    /\ credentials' = (c.userId :> c) @@ credentials
    /\ emailToUserId' = (EmailValue(c.email) :> c.userId) @@ emailToUserId

\* InMemoryUserRepository: a Map iterated in insertion order
UserIndex(us, id) == {i \in 1..Len(us) : us[i].id = id}

UserFindById(us, id) ==
    IF UserIndex(us, id) = {} THEN Null
    ELSE us[CHOOSE i \in UserIndex(us, id) : TRUE]

UserFindByEmailBlind(us, email) == Null
UserFindByEmail(us, email) ==
    LET hits == {i \in 1..Len(us) : EmailValue(us[i].email) = EmailValue(email)}
    IN IF hits = {} THEN Null
       ELSE us[CHOOSE i \in hits : \A j \in hits : i <= j]

UserSaveDropped(us, u) == us
UserSave(us, u) ==
    IF UserIndex(us, u.id) = {} THEN Append(us, u)
    ELSE [i \in 1..Len(us) |-> IF us[i].id = u.id THEN u ELSE us[i]]

UserDeleteAll(us, id) == <<>>
UserDelete(us, id) == SelectSeq(us, LAMBDA r : r.id # id)

\* ------------------------------------------------------------- executions

ProcIds == 1..MaxProcs

IdleProc ==
    [kind |-> None, pc |-> "idle", cmd |-> Null, userId |-> 0, tx |-> 0,
     found |-> Null, error |-> Null, result |-> Null, dup |-> FALSE,
     saw |-> None, rollbacks |-> <<>>]

\* AuthResultBuilder.error / AuthResultBuilder.success (the timestamp is left out)
AuthError(error, errorCode, details) ==
    [success |-> FALSE, error |-> error, errorCode |-> errorCode,
     details |-> details, data |-> Null]
AuthSuccess(data) ==
    [success |-> TRUE, error |-> Null, errorCode |-> None, details |-> Null,
     data |-> data]

\* a promise of execute() that rejects: the error reaches the caller
Thrown(error) == [thrown |-> error]

\* uuidv4(): a user id that was never produced before
NewUserId == uuids + 1

\* execute() returns: the slot is free again and the result is observed
Returns(p, result) ==
    /\ procs' = [procs EXCEPT ![p] = IdleProc]
    /\ returned' = [procs[p] EXCEPT !.pc = "done", !.result = result]

\* a step in which no execution returns
NoReturn == returned' = IdleProc

\* a RegisterUser execution for this email has returned success
Registered(email) == \E r \in registered : r.email = ToLowerCase(email)

\* a new execution takes the first free slot
Free(p) ==
    /\ procs[p].pc = "idle"
    /\ \A q \in ProcIds : q < p => procs[q].pc # "idle"

\* ------------------------------------------------------ transaction manager

\* ids of the handles created so far
TxIds == 1..Len(handles)

\* `tx_${Date.now()}_${Math.random()...}`: a time stamp and a random suffix,
\* taken here as a name that was never issued before.
NewTransactionIdReused == IF Len(handles) = 0 THEN 1 ELSE Len(handles)
NewTransactionId == Len(handles) + 1

\* the handle as beginTransaction initialises it
NewHandle == [isCommitted |-> FALSE, isRolledBack |-> FALSE]

\* getTransactionStatus(transactionId), on given registry and handles
StatusOf(hs, reg, id) ==
    IF id \notin reg THEN "not_found"
    ELSE IF hs[id].isCommitted THEN "committed"
    ELSE IF hs[id].isRolledBack THEN "rolledback"
    ELSE "active"

getTransactionStatus(id) == StatusOf(handles, activeTransactions, id)

\* transaction.commit() / transaction.rollback() of the in-memory handle
HandleCommit(hs, id) == [hs EXCEPT ![id].isCommitted = TRUE]
HandleRollback(hs, id) == [hs EXCEPT ![id].isRolledBack = TRUE]

\* A call on the manager yields what the caller sees ("ok" or the error
\* thrown) and the handles and cleanup timers it leaves behind.
Threw(error) == [outcome |-> error, handles |-> handles, timers |-> timers]

\* commitTransaction(tx): throws, or commits the handle and arms the cleanup
commitTransactionNoCompletedCheck(id) ==
    IF id \notin activeTransactions THEN Threw("not_found")
    ELSE [outcome |-> "ok", handles |-> HandleCommit(handles, id),
          timers |-> timers \cup {id}]
commitTransactionNoRegistryCheck(id) ==
    IF handles[id].isCommitted \/ handles[id].isRolledBack
    THEN Threw("already_completed")
    ELSE [outcome |-> "ok", handles |-> HandleCommit(handles, id),
          timers |-> timers \cup {id}]
commitTransaction(id) ==
    IF id \notin activeTransactions THEN Threw("not_found")
    ELSE IF handles[id].isCommitted \/ handles[id].isRolledBack
         THEN Threw("already_completed")
         ELSE [outcome |-> "ok", handles |-> HandleCommit(handles, id),
               timers |-> timers \cup {id}]

\* rollbackTransaction(tx)
rollbackTransactionNoCompletedCheck(id) ==
    IF id \notin activeTransactions THEN Threw("not_found")
    ELSE [outcome |-> "ok", handles |-> HandleRollback(handles, id),
          timers |-> timers \cup {id}]
rollbackTransaction(id) ==
    IF id \notin activeTransactions THEN Threw("not_found")
    ELSE IF handles[id].isCommitted \/ handles[id].isRolledBack
         THEN Threw("already_completed")
         ELSE [outcome |-> "ok", handles |-> HandleRollback(handles, id),
               timers |-> timers \cup {id}]

\* abortTransaction(tx): await this.rollbackTransaction(transaction)
abortTransactionOnHandle(id) ==
    [outcome |-> "ok", handles |-> HandleRollback(handles, id), timers |-> timers]
abortTransaction(id) == rollbackTransaction(id)

\* transaction.abort() of the in-memory handle: it calls back into the
\* manager that made it, this.rollbackTransaction(transaction)
HandleAbort(id) == rollbackTransaction(id)

\* the state a call on the manager leaves
Leaves(result) ==
    /\ handles' = result.handles
    /\ timers' = result.timers
    /\ UNCHANGED activeTransactions

\* beginTransaction(): a new handle, registered under its id
beginTransaction(id) ==
    /\ id = NewTransactionId
    /\ id <= MaxTx
    /\ handles' = IF id \in TxIds THEN [handles EXCEPT ![id] = NewHandle]
                  ELSE Append(handles, NewHandle)
    /\ activeTransactions' = activeTransactions \cup {id}
    /\ UNCHANGED timers

\* the callback of setTimeout(() => activeTransactions.delete(id), 100)
CleanupTimerSweeping(id) ==
    /\ id \in timers
    /\ activeTransactions' = {}
    /\ timers' = timers \ {id}
    /\ UNCHANGED handles
CleanupTimer(id) ==
    /\ id \in timers
    /\ activeTransactions' = activeTransactions \ {id}
    /\ timers' = timers \ {id}
    /\ UNCHANGED handles

\* clear(): the registry is emptied, the handles live on with their holders
ClearRegistry ==
    /\ activeTransactions' = {}
    /\ UNCHANGED <<handles, timers>>

\* ------------------------------------------- a client driving the manager

Called(op, id, outcome) ==
    lastCall' = [op |-> op, id |-> id, outcome |-> outcome,
                 pre |-> getTransactionStatus(id), tick |-> 1 - lastCall.tick]

ClientBegin ==
    \E id \in {NewTransactionId} :
        /\ beginTransaction(id)
        /\ Called("begin", id, "ok")
        /\ UNCHANGED appVars

ClientCommit ==
    \E id \in TxIds :
        /\ Leaves(commitTransaction(id))
        /\ Called("commit", id, commitTransaction(id).outcome)
        /\ UNCHANGED appVars

ClientRollback ==
    \E id \in TxIds :
        /\ Leaves(rollbackTransaction(id))
        /\ Called("rollback", id, rollbackTransaction(id).outcome)
        /\ UNCHANGED appVars

ClientAbort ==
    \E id \in TxIds :
        /\ Leaves(abortTransaction(id))
        /\ Called("abort", id, abortTransaction(id).outcome)
        /\ UNCHANGED appVars

ClientHandleAbort ==
    \E id \in TxIds :
        /\ Leaves(HandleAbort(id))
        /\ Called("handle.abort", id, HandleAbort(id).outcome)
        /\ UNCHANGED appVars

TimerFires ==
    \E id \in timers :
        /\ CleanupTimer(id)
        /\ NoReturn
        /\ UNCHANGED <<lastCall, repoVars, procs, uuids, now, started, registered,
                   deactivated, linkVars>>

ClientClear ==
    /\ ClearRegistry
    /\ Called("clear", 0, "ok")
    /\ UNCHANGED appVars

\* ------------------------------------------------- RegisterUserUseCase.execute

BaseCommand ==
    [email |-> "a@x.io", password |-> "Passw0rd", name |-> "John Doe",
     role |-> None, plan |-> None, profileImage |-> None]

\* the commands tried: the base command with its email, its password and
\* its name varied, and with role, plan and profile image given
RegisterCommands ==
    {[BaseCommand EXCEPT !.email = e] : e \in RawEmails}
    \cup {[BaseCommand EXCEPT !.password = pw] : pw \in RegisterPasswords}
    \cup {[BaseCommand EXCEPT !.name = n] : n \in RawNames}
    \cup {[BaseCommand EXCEPT !.role = r, !.plan = pl, !.profileImage = "p.png"] :
            r \in {"admin"}, pl \in {"premium"}}
    \cup {[BaseCommand EXCEPT !.role = r] : r \in {"root"}}
    \cup {[BaseCommand EXCEPT !.plan = pl] : pl \in {"gold"}}

\* the error result the validation of the command returns, or Null
RegisterValidationWithoutPlan(cmd) ==
    IF cmd.email = "" \/ cmd.password = "" \/ cmd.name = ""
    THEN AuthError(Message("Email, password, and name are required", ""),
                   "VALIDATION_ERROR", Null)
    ELSE IF EmailError(cmd.email) # Null
    THEN AuthError(EmailError(cmd.email), "INVALID_EMAIL", Null)
    ELSE IF PasswordError(cmd.password) # Null
    THEN AuthError(PasswordError(cmd.password), "INVALID_PASSWORD", Null)
    ELSE IF UserNameError(cmd.name) # Null
    THEN AuthError(UserNameError(cmd.name), "INVALID_NAME", Null)
    ELSE IF UserRoleError(cmd.role) # Null
    THEN AuthError(UserRoleError(cmd.role), "INVALID_ROLE", Null)
    ELSE Null
RegisterValidation(cmd) ==
    IF cmd.email = "" \/ cmd.password = "" \/ cmd.name = ""
    THEN AuthError(Message("Email, password, and name are required", ""),
                   "VALIDATION_ERROR", Null)
    ELSE IF EmailError(cmd.email) # Null
    THEN AuthError(EmailError(cmd.email), "INVALID_EMAIL", Null)
    ELSE IF PasswordError(cmd.password) # Null
    THEN AuthError(PasswordError(cmd.password), "INVALID_PASSWORD", Null)
    ELSE IF UserNameError(cmd.name) # Null
    THEN AuthError(UserNameError(cmd.name), "INVALID_NAME", Null)
    ELSE IF UserRoleError(cmd.role) # Null
    THEN AuthError(UserRoleError(cmd.role), "INVALID_ROLE", Null)
    ELSE IF UserPlanError(cmd.plan) # Null
    THEN AuthError(UserPlanError(cmd.plan), "INVALID_PLAN", Null)
    ELSE Null

\* the message of AuthRegisterUserException(email.getValue())
AlreadyExistsMessage(email) ==
    Message("User with email ${email} already exists", EmailValue(email))

\* the message of the error a manager call threw
TransactionErrorMessage(id, outcome) ==
    Message(IF outcome = "not_found" THEN "Transaction ${id} not found"
            ELSE "Transaction ${id} already completed", ToString(id))

\* execute() up to `await beginTransaction()`: validation, value objects,
\* uuidv4(), and the synchronous body of beginTransaction
RegisterStartWithin(p, cmd, max) ==
    /\ Free(p)
    /\ IF RegisterValidation(cmd) # Null
       THEN /\ returned' = [IdleProc EXCEPT !.kind = "register", !.pc = "done",
                               !.cmd = cmd, !.result = RegisterValidation(cmd),
                               !.dup = Registered(cmd.email)]
            /\ UNCHANGED <<txVars, uuids, procs, started>>
       ELSE /\ uuids < MaxUsers
            /\ started < max
            /\ started' = started + 1
            /\ beginTransaction(NewTransactionId)
            /\ uuids' = uuids + 1
            /\ procs' = [procs EXCEPT ![p] =
                   [IdleProc EXCEPT !.kind = "register", !.pc = "begun",
                                    !.cmd = cmd, !.userId = NewUserId,
                                    !.tx = NewTransactionId,
                                    !.dup = Registered(cmd.email)]]
            /\ NoReturn
    /\ UNCHANGED <<lastCall, repoVars, now, registered,
                   deactivated, linkVars>>

RegisterStart(p, cmd) == RegisterStartWithin(p, cmd, MaxExecutions)

\* registerUser up to `await findByEmail(email, transaction)`
RegisterFindByEmail(p) ==
    /\ procs[p].kind = "register"
    /\ procs[p].pc = "begun"
    /\ procs' = [procs EXCEPT ![p].pc = "found",
                              ![p].found = CredentialsFindByEmail(procs[p].cmd.email)]
    /\ NoReturn
    /\ UNCHANGED <<txVars, lastCall, repoVars, uuids, now, started, registered,
                   deactivated, linkVars>>

\* `existingCredentials` as registerUser tests it after the await
ExistingCredentialsAtSave(p) == CredentialsFindByEmail(procs[p].cmd.email)
ExistingCredentials(p) == procs[p].found

\* registerUser from the check of existingCredentials to `await save(...)`
RegisterCredentials(p) ==
    /\ procs[p].kind = "register"
    /\ procs[p].pc = "found"
    /\ IF ExistingCredentials(p) # Null
       THEN /\ procs' = [procs EXCEPT ![p].pc = "failed",
                            ![p].error = AlreadyExistsMessage(procs[p].cmd.email)]
            /\ UNCHANGED <<credentials, emailToUserId>>
       ELSE /\ CredentialsSave(UserCredentialsCreate(procs[p].cmd.email,
                                   PasswordCreate(procs[p].cmd.password),
                                   procs[p].userId))
            /\ procs' = [procs EXCEPT ![p].pc = "credentialsSaved"]
    /\ NoReturn
    /\ UNCHANGED <<txVars, lastCall, users, uuids, now, started, registered,
                   deactivated, linkVars>>

\* execute() from the return of registerUser to `await userRepository.save(user)`
RegisterSaveUser(p) ==
    /\ procs[p].kind = "register"
    /\ procs[p].pc = "credentialsSaved"
    /\ users' = UserSave(users,
                    NewUser(procs[p].userId, procs[p].cmd.email, procs[p].cmd.name,
                            procs[p].cmd.profileImage, TRUE, FALSE,
                            UserRoleOf(procs[p].cmd.role),
                            UserPlanOf(procs[p].cmd.plan)))
    /\ procs' = [procs EXCEPT ![p].pc = "userSaved"]
    /\ NoReturn
    /\ UNCHANGED <<txVars, lastCall, credentials, emailToUserId, uuids,
                   now, started, registered,
                   deactivated, linkVars>>

\* the data of the success result
RegisterData(p) ==
    [userId |-> procs[p].userId, email |-> procs[p].cmd.email,
     name |-> procs[p].cmd.name, profileImage |-> procs[p].cmd.profileImage,
     isActive |-> TRUE, isVerified |-> FALSE,
     role |-> UserRoleOf(procs[p].cmd.role), plan |-> UserPlanOf(procs[p].cmd.plan)]

\* execute() from commitTransaction to the success result, or into the catch
RegisterCommit(p) ==
    /\ procs[p].kind = "register"
    /\ procs[p].pc = "userSaved"
    /\ Leaves(commitTransaction(procs[p].tx))
    /\ IF commitTransaction(procs[p].tx).outcome = "ok"
       THEN /\ Returns(p, AuthSuccess(RegisterData(p)))
            /\ registered' = registered \cup
                  {[email |-> ToLowerCase(procs[p].cmd.email),
                    userId |-> procs[p].userId]}
       ELSE /\ procs' = [procs EXCEPT ![p].pc = "failed",
                            ![p].error = TransactionErrorMessage(procs[p].tx,
                                            commitTransaction(procs[p].tx).outcome)]
            /\ NoReturn
            /\ UNCHANGED registered
    /\ UNCHANGED <<lastCall, repoVars, uuids, now, started, deactivated, linkVars>>

\* execute() returns after its catch block has called rollbackTransaction:
\* the call is recorded with the status the transaction had and its outcome
ReturnsAfterRollback(p, result, outcome) ==
    /\ procs' = [procs EXCEPT ![p] = IdleProc]
    /\ returned' = [procs[p] EXCEPT !.pc = "done", !.result = result,
                       !.rollbacks = Append(@,
                           [status |-> getTransactionStatus(procs[p].tx),
                            outcome |-> outcome])]

\* the catch blocks of the auth use cases: roll back unless committed (an
\* error of the rollback is logged and dropped), then map the error
RollbackAndRethrow(p, errorCode) ==
    /\ procs[p].pc = "failed"
    /\ IF ~handles[procs[p].tx].isCommitted
       THEN /\ Leaves(rollbackTransaction(procs[p].tx))
            /\ ReturnsAfterRollback(p, Thrown(procs[p].error),
                                    rollbackTransaction(procs[p].tx).outcome)
       ELSE /\ UNCHANGED txVars
            /\ Returns(p, Thrown(procs[p].error))
RollbackAndReturnUnchecked(p, errorCode) ==
    /\ procs[p].pc = "failed"
    /\ Leaves(rollbackTransaction(procs[p].tx))
    /\ ReturnsAfterRollback(p,
           AuthError(procs[p].error, errorCode,
                     [originalError |-> procs[p].error]),
           rollbackTransaction(procs[p].tx).outcome)
RollbackAndReturn(p, errorCode) ==
    /\ procs[p].pc = "failed"
    /\ IF ~handles[procs[p].tx].isCommitted
       THEN /\ Leaves(rollbackTransaction(procs[p].tx))
            /\ ReturnsAfterRollback(p,
                   AuthError(procs[p].error, errorCode,
                             [originalError |-> procs[p].error]),
                   rollbackTransaction(procs[p].tx).outcome)
       ELSE /\ UNCHANGED txVars
            /\ Returns(p, AuthError(procs[p].error, errorCode,
                                    [originalError |-> procs[p].error]))

RegisterRollback(p) ==
    /\ procs[p].kind = "register"
    /\ RollbackAndReturn(p, "REGISTRATION_ERROR")
    /\ UNCHANGED <<lastCall, repoVars, uuids, now, started, registered,
                   deactivated, linkVars>>

\* -------------------------------------------------------- LoginUseCase.execute

BaseQuery == [email |-> "A@x.io", password |-> "Passw0rd"]

LoginQueries ==
    {[BaseQuery EXCEPT !.email = e] : e \in RawEmails}
    \cup {[BaseQuery EXCEPT !.password = pw] : pw \in PlainPasswords}
    \cup {[email |-> "b@x.io", password |-> pw] : pw \in {"short", "Secret1x"}}

\* the error result the validation of the query returns, or Null
LoginValidation(query) ==
    IF query.email = "" \/ query.password = ""
    THEN AuthError(Message("Email and password are required", ""),
                   "VALIDATION_ERROR", Null)
    ELSE IF EmailError(query.email) # Null
    THEN AuthError(EmailError(query.email), "INVALID_EMAIL", Null)
    ELSE IF PasswordError(query.password) # Null
    THEN AuthError(PasswordError(query.password), "INVALID_PASSWORD", Null)
    ELSE Null

\* what the credentials repository holds for an email and a password
CredentialsCase(found, plain) ==
    IF found = Null THEN "no_record"
    ELSE IF ~found.isActive THEN "inactive"
    ELSE IF ~PasswordCompare(found.password, plain) THEN "mismatch"
    ELSE "match"

\* execute() up to `await beginTransaction()`
LoginStartWithin(p, query, max) ==
    /\ Free(p)
    /\ IF LoginValidation(query) # Null
       THEN /\ returned' = [IdleProc EXCEPT !.kind = "login", !.pc = "done",
                               !.cmd = query, !.result = LoginValidation(query),
                               !.saw = CredentialsCase(
                                          CredentialsFindByEmail(query.email),
                                          query.password)]
            /\ UNCHANGED <<txVars, procs, started>>
       ELSE /\ started < max
            /\ started' = started + 1
            /\ beginTransaction(NewTransactionId)
            /\ procs' = [procs EXCEPT ![p] =
                   [IdleProc EXCEPT !.kind = "login", !.pc = "begun",
                                    !.cmd = query, !.tx = NewTransactionId]]
            /\ NoReturn
    /\ UNCHANGED <<lastCall, repoVars, uuids, now, registered,
                   deactivated, linkVars>>

LoginStart(p, query) == LoginStartWithin(p, query, MaxExecutions)

\* authenticateUser up to `await findByEmail(email, transaction)`
LoginFindByEmail(p) ==
    /\ procs[p].kind = "login"
    /\ procs[p].pc = "begun"
    /\ procs' = [procs EXCEPT
                   ![p].pc = "found",
                   ![p].found = CredentialsFindByEmail(procs[p].cmd.email),
                   ![p].saw = CredentialsCase(
                                 CredentialsFindByEmail(procs[p].cmd.email),
                                 procs[p].cmd.password)]
    /\ NoReturn
    /\ UNCHANGED <<txVars, lastCall, repoVars, uuids, now, started, registered,
                   deactivated, linkVars>>

\* the messages of AuthLoginInvalidCredentialsException and
\* AuthLoginUserInactiveException
InvalidCredentialsMessage == Message("Invalid email or password", "")
UserInactiveMessage == Message("User account is deactivated", "")

\* the exception authenticateUser throws on the record it found, or Null
authenticateUserErrorTelling(found, plain) ==
    IF found = Null THEN InvalidCredentialsMessage
    ELSE IF ~found.isActive THEN UserInactiveMessage
    ELSE IF ~PasswordCompare(found.password, plain)
         THEN Message("Password is incorrect", "")
         ELSE Null
authenticateUserError(found, plain) ==
    IF found = Null THEN InvalidCredentialsMessage
    ELSE IF ~found.isActive THEN UserInactiveMessage
    ELSE IF ~PasswordCompare(found.password, plain) THEN InvalidCredentialsMessage
    ELSE Null

\* authenticateUser from its checks to `await save(updatedCredentials)`
LoginAuthenticate(p) ==
    /\ procs[p].kind = "login"
    /\ procs[p].pc = "found"
    /\ IF authenticateUserError(procs[p].found, procs[p].cmd.password) # Null
       THEN /\ procs' = [procs EXCEPT ![p].pc = "failed",
                            ![p].error = authenticateUserError(procs[p].found,
                                             procs[p].cmd.password)]
            /\ UNCHANGED <<credentials, emailToUserId>>
       ELSE /\ CredentialsSave(updateLastLogin(procs[p].found))
            /\ procs' = [procs EXCEPT ![p].pc = "authenticated",
                            ![p].found = updateLastLogin(procs[p].found),
                            ![p].userId = procs[p].found.userId]
    /\ NoReturn
    /\ UNCHANGED <<txVars, lastCall, users, uuids, now, started, registered,
                   deactivated, linkVars>>

\* 24 * 60 * 60, the life of a token in seconds
TokenLifetime == 86400

\* generateJwtToken: jwt.sign(payload, secret), header.payload.signature
generateJwtToken(userId, email) ==
    <<"header",
      [userId |-> userId, email |-> email, iat |-> now \div 1000,
       exp |-> (now \div 1000) + TokenLifetime],
      "signature">>

\* new JwtToken(token): the message of the error thrown, or Null
JwtTokenError(token) ==
    IF Len(token) # 3 THEN Message("Invalid JWT token format", "") ELSE Null

\* execute() from the token to the success result, or into the catch
LoginCommit(p) ==
    /\ procs[p].kind = "login"
    /\ procs[p].pc = "authenticated"
    /\ LET token == generateJwtToken(procs[p].found.userId,
                                     EmailValue(procs[p].found.email))
       IN IF JwtTokenError(token) # Null
          THEN /\ procs' = [procs EXCEPT ![p].pc = "failed",
                               ![p].error = JwtTokenError(token)]
               /\ NoReturn
               /\ UNCHANGED txVars
          ELSE /\ Leaves(commitTransaction(procs[p].tx))
               /\ IF commitTransaction(procs[p].tx).outcome = "ok"
                  THEN Returns(p, AuthSuccess(
                          [userId |-> procs[p].found.userId,
                           email |-> EmailValue(procs[p].found.email),
                           token |-> token]))
                  ELSE /\ procs' = [procs EXCEPT ![p].pc = "failed",
                            ![p].error = TransactionErrorMessage(procs[p].tx,
                                            commitTransaction(procs[p].tx).outcome)]
                       /\ NoReturn
    /\ UNCHANGED <<lastCall, repoVars, uuids, now, started, registered,
                   deactivated, linkVars>>

LoginRollback(p) ==
    /\ procs[p].kind = "login"
    /\ RollbackAndReturn(p, "AUTHENTICATION_ERROR")
    /\ UNCHANGED <<lastCall, repoVars, uuids, now, started, registered,
                   deactivated, linkVars>>

\* -------------------------------------------------------- UserDomainService

\* the Email, UserName and UserId objects callers pass in: constructed, hence valid
DomainEmails == {e \in RawEmails : EmailError(e) = Null}
DomainNames == {n \in RawNames \cup {"Jane Roe"} : UserNameError(n) = Null}
DomainUserIds == 1..MaxUsers

\* a promise of the service settles
Resolved(value) ==
    [success |-> TRUE, error |-> Null, errorCode |-> None, details |-> Null,
     data |-> value]
Rejected(error) ==
    [success |-> FALSE, error |-> error, errorCode |-> None, details |-> Null,
     data |-> Null]

\* the messages of UserNotFoundError and UserCannotBeDeletedError
UserNotFoundMessage(userId) == Message("User not found: ${identifier}", ToString(userId))
UserCannotBeDeletedMessage(userId) ==
    Message("User ${userId} cannot be deleted (created less than 24 hours ago)",
            ToString(userId))

\* User.canBeDeleted(): created more than 24 hours ago
TwentyFourHours == 24 * 60 * 60 * 1000
canBeDeletedAtTheBoundary(user) == user.createdAt <= now - TwentyFourHours
canBeDeleted(user) == user.createdAt < now - TwentyFourHours

\* createUser up to `await findByEmail(email)`
CreateUserFindWithin(p, email, name, max) ==
    /\ Free(p)
    /\ started < max
    /\ started' = started + 1
    /\ procs' = [procs EXCEPT ![p] =
           [IdleProc EXCEPT !.kind = "createUser", !.pc = "found",
                            !.cmd = [email |-> email, name |-> name],
                            !.found = UserFindByEmail(users, email)]]
    /\ NoReturn
    /\ UNCHANGED <<txVars, lastCall, repoVars, uuids, now, registered,
                   deactivated, linkVars>>

CreateUserFind(p, email, name) ==
    CreateUserFindWithin(p, email, name, MaxExecutions)

\* `existingUser` as createUser tests it after the await
ExistingUser(p) == procs[p].found

\* createUser from the check of existingUser to its return
CreateUserSave(p) ==
    /\ procs[p].kind = "createUser"
    /\ procs[p].pc = "found"
    /\ IF ExistingUser(p) # Null
       THEN /\ Returns(p, Rejected(AlreadyExistsMessage(procs[p].cmd.email)))
            /\ UNCHANGED <<users, uuids>>
       ELSE /\ uuids < MaxUsers
            /\ uuids' = uuids + 1
            /\ users' = UserSave(users,
                            NewUser(NewUserId, procs[p].cmd.email, procs[p].cmd.name,
                                    None, TRUE, TRUE, "USER", "STANDARD"))
            /\ Returns(p, Resolved(
                            NewUser(NewUserId, procs[p].cmd.email, procs[p].cmd.name,
                                    None, TRUE, TRUE, "USER", "STANDARD")))
    /\ UNCHANGED <<txVars, lastCall, credentials, emailToUserId, now, started, registered,
                   deactivated, linkVars>>

\* updateUserProfile up to `await findById(userId)`
UpdateUserProfileFindWithin(p, userId, newName, max) ==
    /\ Free(p)
    /\ started < max
    /\ started' = started + 1
    /\ procs' = [procs EXCEPT ![p] =
           [IdleProc EXCEPT !.kind = "updateUserProfile", !.pc = "found",
                            !.cmd = [userId |-> userId, newName |-> newName],
                            !.found = UserFindById(users, userId)]]
    /\ NoReturn
    /\ UNCHANGED <<txVars, lastCall, repoVars, uuids, now, registered,
                   deactivated, linkVars>>

UpdateUserProfileFind(p, userId, newName) ==
    UpdateUserProfileFindWithin(p, userId, newName, MaxExecutions)

\* updateUserProfile from the check of user to its return
UpdateUserProfileSave(p) ==
    /\ procs[p].kind = "updateUserProfile"
    /\ procs[p].pc = "found"
    /\ IF procs[p].found = Null
       THEN /\ Returns(p, Rejected(UserNotFoundMessage(procs[p].cmd.userId)))
            /\ UNCHANGED users
       ELSE /\ users' = UserSave(users,
                            [procs[p].found EXCEPT !.name = procs[p].cmd.newName])
            /\ Returns(p, Resolved(
                            [procs[p].found EXCEPT !.name = procs[p].cmd.newName]))
    /\ UNCHANGED <<txVars, lastCall, credentials, emailToUserId, uuids, now,
                   started, registered,
                   deactivated, linkVars>>

\* changeUserEmail up to `await findByEmail(newEmail)`
ChangeUserEmailFindByEmailWithin(p, userId, newEmail, max) ==
    /\ Free(p)
    /\ started < max
    /\ started' = started + 1
    /\ procs' = [procs EXCEPT ![p] =
           [IdleProc EXCEPT !.kind = "changeUserEmail", !.pc = "checked",
                            !.cmd = [userId |-> userId, newEmail |-> newEmail],
                            !.found = UserFindByEmail(users, newEmail)]]
    /\ NoReturn
    /\ UNCHANGED <<txVars, lastCall, repoVars, uuids, now, registered,
                   deactivated, linkVars>>

ChangeUserEmailFindByEmail(p, userId, newEmail) ==
    ChangeUserEmailFindByEmailWithin(p, userId, newEmail, MaxExecutions)

\* changeUserEmail from the check of existingUser to `await findById(userId)`
ChangeUserEmailFindById(p) ==
    /\ procs[p].kind = "changeUserEmail"
    /\ procs[p].pc = "checked"
    /\ IF procs[p].found # Null /\ procs[p].found.id # procs[p].cmd.userId
       THEN /\ Returns(p, Rejected(AlreadyExistsMessage(procs[p].cmd.newEmail)))
       ELSE /\ procs' = [procs EXCEPT ![p].pc = "found",
                            ![p].found = UserFindById(users, procs[p].cmd.userId)]
            /\ NoReturn
    /\ UNCHANGED <<txVars, lastCall, repoVars, uuids, now, started, registered,
                   deactivated, linkVars>>

\* changeUserEmail from the check of user to its return
ChangeUserEmailSave(p) ==
    /\ procs[p].kind = "changeUserEmail"
    /\ procs[p].pc = "found"
    /\ IF procs[p].found = Null
       THEN /\ Returns(p, Rejected(UserNotFoundMessage(procs[p].cmd.userId)))
            /\ UNCHANGED users
       ELSE /\ users' = UserSave(users,
                            [procs[p].found EXCEPT !.email = procs[p].cmd.newEmail])
            /\ Returns(p, Resolved(
                            [procs[p].found EXCEPT !.email = procs[p].cmd.newEmail]))
    /\ UNCHANGED <<txVars, lastCall, credentials, emailToUserId, uuids, now,
                   started, registered,
                   deactivated, linkVars>>

\* deleteUser up to `await findById(userId)`
DeleteUserFindWithin(p, userId, max) ==
    /\ Free(p)
    /\ started < max
    /\ started' = started + 1
    /\ procs' = [procs EXCEPT ![p] =
           [IdleProc EXCEPT !.kind = "deleteUser", !.pc = "found",
                            !.cmd = [userId |-> userId],
                            !.found = UserFindById(users, userId)]]
    /\ NoReturn
    /\ UNCHANGED <<txVars, lastCall, repoVars, uuids, now, registered,
                   deactivated, linkVars>>

DeleteUserFind(p, userId) ==
    DeleteUserFindWithin(p, userId, MaxExecutions)

\* deleteUser from the check of user to its return
DeleteUserDelete(p) ==
    /\ procs[p].kind = "deleteUser"
    /\ procs[p].pc = "found"
    /\ IF procs[p].found = Null
       THEN /\ Returns(p, Rejected(UserNotFoundMessage(procs[p].cmd.userId)))
            /\ UNCHANGED users
       ELSE IF ~canBeDeleted(procs[p].found)
       THEN /\ Returns(p, Rejected(UserCannotBeDeletedMessage(procs[p].cmd.userId)))
            /\ UNCHANGED users
       ELSE /\ users' = UserDelete(users, procs[p].cmd.userId)
            /\ Returns(p, Resolved(Null))
    /\ UNCHANGED <<txVars, lastCall, credentials, emailToUserId, uuids, now,
                   started, registered,
                   deactivated, linkVars>>

\* ------------------------------------------------ ChangePasswordUseCase.execute

\* the commands tried: a matching and a non-matching current password,
\* a missing and a weak new password, an unknown user
ChangePasswordCommands ==
    {[userId |-> 1, currentPassword |-> c, newPassword |-> n] :
        c \in {"Passw0rd", "Secret1x"}, n \in {"Secret1x"}}
    \cup {[userId |-> 1, currentPassword |-> "Passw0rd", newPassword |-> n] :
            n \in {"", "short"}}
    \cup {[userId |-> 1, currentPassword |-> "", newPassword |-> "Secret1x"],
          [userId |-> 2, currentPassword |-> "Passw0rd", newPassword |-> "Secret1x"]}

\* the error result the validation of the command returns, or Null
ChangePasswordValidation(cmd) ==
    IF cmd.currentPassword = "" \/ cmd.newPassword = ""
    THEN AuthError(Message("Current password and new password are required", ""),
                   "VALIDATION_ERROR", Null)
    ELSE IF PasswordError(cmd.newPassword) # Null
    THEN AuthError(PasswordError(cmd.newPassword), "INVALID_PASSWORD", Null)
    ELSE Null

\* execute() up to `await beginTransaction()`
ChangePasswordStartWithin(p, cmd, max) ==
    /\ Free(p)
    /\ IF ChangePasswordValidation(cmd) # Null
       THEN /\ returned' = [IdleProc EXCEPT !.kind = "changePassword", !.pc = "done",
                               !.cmd = cmd, !.result = ChangePasswordValidation(cmd)]
            /\ UNCHANGED <<txVars, procs, started>>
       ELSE /\ started < max
            /\ started' = started + 1
            /\ beginTransaction(NewTransactionId)
            /\ procs' = [procs EXCEPT ![p] =
                   [IdleProc EXCEPT !.kind = "changePassword", !.pc = "begun",
                                    !.cmd = cmd, !.tx = NewTransactionId]]
            /\ NoReturn
    /\ UNCHANGED <<lastCall, repoVars, uuids, now, registered, deactivated, linkVars>>

ChangePasswordStart(p, cmd) ==
    ChangePasswordStartWithin(p, cmd, MaxAccountExecutions)

\* changePassword up to `await findByUserId(userId, transaction)`
ChangePasswordFind(p) ==
    /\ procs[p].kind = "changePassword"
    /\ procs[p].pc = "begun"
    /\ procs' = [procs EXCEPT ![p].pc = "found",
                              ![p].found = CredentialsFindByUserId(procs[p].cmd.userId)]
    /\ NoReturn
    /\ UNCHANGED <<txVars, lastCall, repoVars, uuids, now, started, registered,
                   deactivated, linkVars>>

\* the messages of AuthUserNotFoundException and
\* AuthChangePasswordInvalidCurrentPasswordException
AuthUserNotFoundMessage == Message("User not found", "")
InvalidCurrentPasswordMessage == Message("Current password is incorrect", "")

\* the exception changePassword throws on the record it found, or Null
changePasswordErrorUnchecked(found, current) ==
    IF found = Null THEN AuthUserNotFoundMessage ELSE Null
changePasswordError(found, current) ==
    IF found = Null THEN AuthUserNotFoundMessage
    ELSE IF ~PasswordCompare(found.password, current) THEN InvalidCurrentPasswordMessage
    ELSE Null

\* changePassword from its checks to `await save(updatedCredentials)`
ChangePasswordSave(p) ==
    /\ procs[p].kind = "changePassword"
    /\ procs[p].pc = "found"
    /\ IF changePasswordError(procs[p].found, procs[p].cmd.currentPassword) # Null
       THEN /\ procs' = [procs EXCEPT ![p].pc = "failed",
                            ![p].error = changePasswordError(procs[p].found,
                                             procs[p].cmd.currentPassword)]
            /\ UNCHANGED <<credentials, emailToUserId>>
       ELSE /\ CredentialsSave(updatePassword(procs[p].found,
                                   PasswordCreate(procs[p].cmd.newPassword)))
            /\ procs' = [procs EXCEPT ![p].pc = "saved"]
    /\ NoReturn
    /\ UNCHANGED <<txVars, lastCall, users, uuids, now, started, registered,
                   deactivated, linkVars>>

\* execute() from commitTransaction to the success result, or into the catch
ChangePasswordCommit(p) ==
    /\ procs[p].kind = "changePassword"
    /\ procs[p].pc = "saved"
    /\ Leaves(commitTransaction(procs[p].tx))
    /\ IF commitTransaction(procs[p].tx).outcome = "ok"
       THEN Returns(p, AuthSuccess([userId |-> procs[p].found.userId,
                                    message |-> "Password changed successfully"]))
       ELSE /\ procs' = [procs EXCEPT ![p].pc = "failed",
                            ![p].error = TransactionErrorMessage(procs[p].tx,
                                            commitTransaction(procs[p].tx).outcome)]
            /\ NoReturn
    /\ UNCHANGED <<lastCall, repoVars, uuids, now, started, registered, deactivated, linkVars>>

ChangePasswordRollback(p) ==
    /\ procs[p].kind = "changePassword"
    /\ RollbackAndReturn(p, "PASSWORD_CHANGE_ERROR")
    /\ UNCHANGED <<lastCall, repoVars, uuids, now, started, registered, deactivated, linkVars>>

\* ------------------------- AuthDomainService.deactivateUser / reactivateUser

\* deactivateUser up to `await findByUserId(userId)`
DeactivateUserFind(p, userId) ==
    /\ Free(p)
    /\ started < MaxAccountExecutions
    /\ started' = started + 1
    /\ procs' = [procs EXCEPT ![p] =
           [IdleProc EXCEPT !.kind = "deactivateUser", !.pc = "found",
                            !.cmd = [userId |-> userId],
                            !.found = CredentialsFindByUserId(userId)]]
    /\ NoReturn
    /\ UNCHANGED <<txVars, lastCall, repoVars, uuids, now, registered, deactivated, linkVars>>

\* deactivateUser from the check of userCredentials to its return
DeactivateUserSave(p) ==
    /\ procs[p].kind = "deactivateUser"
    /\ procs[p].pc = "found"
    /\ IF procs[p].found = Null
       THEN /\ Returns(p, Rejected(AuthUserNotFoundMessage))
            /\ UNCHANGED <<credentials, emailToUserId, deactivated>>
       ELSE /\ CredentialsSave(deactivate(procs[p].found))
            /\ Returns(p, Resolved(deactivate(procs[p].found)))
            /\ deactivated' =
                  IF \E q \in ProcIds : /\ procs[q].kind = "reactivateUser"
                                        /\ procs[q].cmd.userId = procs[p].cmd.userId
                  THEN deactivated
                  ELSE deactivated \cup {procs[p].cmd.userId}
    /\ UNCHANGED <<txVars, lastCall, users, uuids, now, started, registered,
                   linkVars>>

\* reactivateUser up to `await findByUserId(userId)`
ReactivateUserFind(p, userId) ==
    /\ Free(p)
    /\ started < MaxAccountExecutions
    /\ started' = started + 1
    /\ procs' = [procs EXCEPT ![p] =
           [IdleProc EXCEPT !.kind = "reactivateUser", !.pc = "found",
                            !.cmd = [userId |-> userId],
                            !.found = CredentialsFindByUserId(userId)]]
    /\ deactivated' = deactivated \ {userId}
    /\ NoReturn
    /\ UNCHANGED <<txVars, lastCall, repoVars, uuids, now, registered, linkVars>>

\* reactivateUser from the check of userCredentials to its return
ReactivateUserSave(p) ==
    /\ procs[p].kind = "reactivateUser"
    /\ procs[p].pc = "found"
    /\ IF procs[p].found = Null
       THEN /\ Returns(p, Rejected(AuthUserNotFoundMessage))
            /\ UNCHANGED <<credentials, emailToUserId>>
       ELSE /\ CredentialsSave(activate(procs[p].found))
            /\ Returns(p, Resolved(activate(procs[p].found)))
    /\ UNCHANGED <<txVars, lastCall, users, uuids, now, started, registered,
                   deactivated, linkVars>>

\* ----------------------------------------------- GetUserProfileUseCase.execute

\* user ids as the queries carry them: 0 is a missing or empty id, BlankUserId
\* a string of spaces, MalformedUserId a string that is not a UUID
BlankUserId == 0 - 3
MalformedUserId == 0 - 2
RawUserIds == {0, BlankUserId, MalformedUserId} \cup DomainUserIds

\* new UserId(value): the message of the error thrown, or Null
UserIdError(value) ==
    IF value = 0 \/ value = BlankUserId THEN Message("User ID cannot be empty", "")
    ELSE IF value = MalformedUserId THEN Message("User ID must be a valid UUID", "")
    ELSE Null

\* the error result the validation of the query returns, or Null
GetUserProfileValidation(query) ==
    IF query.userId = 0
    THEN AuthError(Message("User ID is required", ""), "VALIDATION_ERROR", Null)
    ELSE IF UserIdError(query.userId) # Null
    THEN AuthError(UserIdError(query.userId), "INVALID_USER_ID", Null)
    ELSE Null

\* execute() up to `await beginTransaction()`
GetUserProfileStart(p, query) ==
    /\ Free(p)
    /\ IF GetUserProfileValidation(query) # Null
       THEN /\ returned' = [IdleProc EXCEPT !.kind = "getUserProfile", !.pc = "done",
                               !.cmd = query,
                               !.result = GetUserProfileValidation(query)]
            /\ UNCHANGED <<txVars, procs, started>>
       ELSE /\ started < MaxExecutions
            /\ started' = started + 1
            /\ beginTransaction(NewTransactionId)
            /\ procs' = [procs EXCEPT ![p] =
                   [IdleProc EXCEPT !.kind = "getUserProfile", !.pc = "begun",
                                    !.cmd = query, !.tx = NewTransactionId]]
            /\ NoReturn
    /\ UNCHANGED <<lastCall, repoVars, uuids, now, registered, deactivated, linkVars>>

\* execute() up to `await userRepository.findById(userId, transaction)`
GetUserProfileFind(p) ==
    /\ procs[p].kind = "getUserProfile"
    /\ procs[p].pc = "begun"
    /\ procs' = [procs EXCEPT ![p].pc = "found",
                              ![p].found = UserFindById(users, procs[p].cmd.userId)]
    /\ NoReturn
    /\ UNCHANGED <<txVars, lastCall, repoVars, uuids, now, started, registered,
                   deactivated, linkVars>>

\* the data of the success result
GetUserProfileData(user) ==
    [userId |-> user.id, email |-> EmailValue(user.email), name |-> user.name,
     profileImage |-> user.profileImage, isActive |-> user.isActive,
     isVerified |-> user.isVerified, role |-> user.role, plan |-> user.plan,
     lastLoginAt |-> NoDate, createdAt |-> user.createdAt,
     updatedAt |-> user.createdAt]

\* execute() from the check of user to the result: a user not found is
\* returned at once, the transaction neither committed nor rolled back
GetUserProfileCommit(p) ==
    /\ procs[p].kind = "getUserProfile"
    /\ procs[p].pc = "found"
    /\ IF procs[p].found = Null
       THEN /\ Returns(p, AuthError(Message("User not found", ""),
                                    "USER_NOT_FOUND", Null))
            /\ UNCHANGED txVars
       ELSE /\ Leaves(commitTransaction(procs[p].tx))
            /\ IF commitTransaction(procs[p].tx).outcome = "ok"
               THEN Returns(p, AuthSuccess(GetUserProfileData(procs[p].found)))
               ELSE /\ procs' = [procs EXCEPT ![p].pc = "failed",
                        ![p].error = TransactionErrorMessage(procs[p].tx,
                                        commitTransaction(procs[p].tx).outcome)]
                    /\ NoReturn
    /\ UNCHANGED <<lastCall, repoVars, uuids, now, started, registered, deactivated, linkVars>>

GetUserProfileRollback(p) ==
    /\ procs[p].kind = "getUserProfile"
    /\ RollbackAndReturn(p, "PROFILE_RETRIEVAL_ERROR")
    /\ UNCHANGED <<lastCall, repoVars, uuids, now, started, registered, deactivated, linkVars>>

\* ------------------------- CreateUserUseCase, GetUserUseCase, GetUsersUseCase

\* the result objects of the users context
ApplicationError(error, errorCode) ==
    [success |-> FALSE, error |-> error, errorCode |-> errorCode,
     details |-> Null, data |-> Null]
ApplicationSuccess(data) ==
    [success |-> TRUE, error |-> Null, errorCode |-> None, details |-> Null,
     data |-> data]

\* UserDto
UserDto(user) ==
    [id |-> user.id, email |-> EmailValue(user.email), name |-> user.name,
     createdAt |-> user.createdAt, profileImage |-> user.profileImage,
     isActive |-> user.isActive, isVerified |-> user.isVerified,
     role |-> user.role, plan |-> user.plan]

CreateUserCommands ==
    {[email |-> e, name |-> "John Doe"] : e \in {"", "a.x.io", "a@x.io"}}
      \cup {[email |-> "a@x.io", name |-> n] : n \in {"", "J"}}

\* the error result the validation of the command returns, or Null
CreateUserValidation(cmd) ==
    IF cmd.email = ""
    THEN ApplicationError(Message("Email cannot be empty", ""), "VALIDATION_ERROR")
    ELSE IF cmd.name = ""
    THEN ApplicationError(Message("User name cannot be empty", ""), "VALIDATION_ERROR")
    ELSE IF EmailError(cmd.email) # Null
    THEN ApplicationError(EmailError(cmd.email), "VALIDATION_ERROR")
    ELSE IF UserNameError(cmd.name) # Null
    THEN ApplicationError(UserNameError(cmd.name), "VALIDATION_ERROR")
    ELSE Null

\* CreateUserUseCase.execute up to `await findByEmail(email)` in createUser
CreateUserExecute(p, cmd) ==
    /\ Free(p)
    /\ IF CreateUserValidation(cmd) # Null
       THEN /\ returned' = [IdleProc EXCEPT !.kind = "createUserUseCase",
                               !.pc = "done", !.cmd = cmd,
                               !.result = CreateUserValidation(cmd)]
            /\ UNCHANGED <<procs, started>>
       ELSE /\ started < MaxExecutions
            /\ uuids < MaxUsers
            /\ started' = started + 1
            /\ procs' = [procs EXCEPT ![p] =
                   [IdleProc EXCEPT !.kind = "createUserUseCase", !.pc = "found",
                                    !.cmd = cmd,
                                    !.found = UserFindByEmail(users, cmd.email)]]
            /\ NoReturn
    /\ UNCHANGED <<txVars, lastCall, repoVars, uuids, now, registered, deactivated, linkVars>>

\* CreateUserUseCase.execute from the check of existingUser in createUser to
\* the result: UserAlreadyExistsError is caught and returned
CreateUserExecuteSave(p) ==
    /\ procs[p].kind = "createUserUseCase"
    /\ procs[p].pc = "found"
    /\ IF procs[p].found # Null
       THEN /\ Returns(p, ApplicationError(AlreadyExistsMessage(procs[p].cmd.email),
                                           "INTERNAL_ERROR"))
            /\ UNCHANGED <<users, uuids>>
       ELSE /\ uuids < MaxUsers
            /\ uuids' = uuids + 1
            /\ users' = UserSave(users,
                            NewUser(NewUserId, procs[p].cmd.email, procs[p].cmd.name,
                                    None, TRUE, TRUE, "USER", "STANDARD"))
            /\ Returns(p, ApplicationSuccess(UserDto(
                            NewUser(NewUserId, procs[p].cmd.email, procs[p].cmd.name,
                                    None, TRUE, TRUE, "USER", "STANDARD"))))
    /\ UNCHANGED <<txVars, lastCall, credentials, emailToUserId, now, started,
                   registered, deactivated, linkVars>>

\* GetUserUseCase.execute up to `await findById(userId)` in getUserById; the
\* error of new UserId() is caught by the one catch of execute()
GetUserExecute(p, query) ==
    /\ Free(p)
    /\ IF query.userId = 0
       THEN /\ returned' = [IdleProc EXCEPT !.kind = "getUser", !.pc = "done",
                               !.cmd = query,
                               !.result = ApplicationError(
                                   Message("User ID is required", ""),
                                   "VALIDATION_ERROR")]
            /\ UNCHANGED <<procs, started>>
       ELSE IF UserIdError(query.userId) # Null
       THEN /\ returned' = [IdleProc EXCEPT !.kind = "getUser", !.pc = "done",
                               !.cmd = query,
                               !.result = ApplicationError(UserIdError(query.userId),
                                                           "INTERNAL_ERROR")]
            /\ UNCHANGED <<procs, started>>
       ELSE /\ started < MaxExecutions
            /\ started' = started + 1
            /\ procs' = [procs EXCEPT ![p] =
                   [IdleProc EXCEPT !.kind = "getUser", !.pc = "found",
                                    !.cmd = query,
                                    !.found = UserFindById(users, query.userId)]]
            /\ NoReturn
    /\ UNCHANGED <<txVars, lastCall, repoVars, uuids, now, registered, deactivated, linkVars>>

\* GetUserUseCase.execute from the check of user in getUserById to the result
GetUserReturn(p) ==
    /\ procs[p].kind = "getUser"
    /\ procs[p].pc = "found"
    /\ IF procs[p].found = Null
       THEN Returns(p, ApplicationError(UserNotFoundMessage(procs[p].cmd.userId),
                                        "INTERNAL_ERROR"))
       ELSE Returns(p, ApplicationSuccess(UserDto(procs[p].found)))
    /\ UNCHANGED <<txVars, lastCall, repoVars, uuids, now, started, registered,
                   deactivated, linkVars>>

\* Array.prototype.sort((a, b) => b.createdAt - a.createdAt): stable, newest
\* first
RECURSIVE NewestFirst(_)
NewestFirst(us) ==
    IF us = <<>> THEN <<>>
    ELSE LET first == CHOOSE i \in 1..Len(us) :
                         \A j \in 1..Len(us) :
                            \/ us[j].createdAt < us[i].createdAt
                            \/ us[j].createdAt = us[i].createdAt /\ i <= j
         IN <<us[first]>>
              \o NewestFirst([k \in 1..(Len(us) - 1) |->
                                 IF k < first THEN us[k] ELSE us[k + 1]])

\* Array.prototype.slice(offset, offset + limit)
Slice(us, offset, limit) ==
    [k \in 1..(IF Len(us) - offset < limit
               THEN (IF Len(us) < offset THEN 0 ELSE Len(us) - offset)
               ELSE limit) |-> us[offset + k]]

\* InMemoryUserRepository.findByName / findByDomain / findWithPagination on
\* the names, the fragments and the domains tried
NameIncludes(name, fragment) == fragment = "john" /\ name = "John Doe"
EmailDomain(email) == "x.io"
UserFindByName(us, name) == SelectSeq(us, LAMBDA u : NameIncludes(u.name, name))
UserFindByDomain(us, domain) ==
    SelectSeq(us, LAMBDA u : EmailDomain(u.email) = domain)
UserFindWithPagination(us, offset, limit) ==
    [users |-> Slice(NewestFirst(us), offset, limit), total |-> Len(us)]

\* the queries tried: a name, a domain, a page with and without its fields
\* (0 stands for an absent offset or limit)
GetUsersQueries ==
    {[offset |-> 0, limit |-> 0, name |-> "john", domain |-> None],
     [offset |-> 0, limit |-> 0, name |-> None, domain |-> "x.io"],
     [offset |-> 0, limit |-> 0, name |-> None, domain |-> None],
     [offset |-> 1, limit |-> 1, name |-> None, domain |-> None]}

\* `query.limit || 10` under the maximum of 100
PageLimit(query) ==
    IF query.limit = 0 THEN 10 ELSE IF query.limit > 100 THEN 100 ELSE query.limit

\* what the repository call of GetUsersUseCase returns
GetUsersFound(us, query) ==
    IF query.name # None
    THEN [users |-> UserFindByName(us, query.name),
          total |-> Len(UserFindByName(us, query.name))]
    ELSE IF query.domain # None
    THEN [users |-> UserFindByDomain(us, query.domain),
          total |-> Len(UserFindByDomain(us, query.domain))]
    ELSE UserFindWithPagination(us, query.offset, PageLimit(query))

\* GetUsersUseCase.execute up to the awaited repository call
GetUsersExecuteWithin(p, query, max) ==
    /\ Free(p)
    /\ started < max
    /\ started' = started + 1
    /\ procs' = [procs EXCEPT ![p] =
           [IdleProc EXCEPT !.kind = "getUsers", !.pc = "found", !.cmd = query,
                            !.found = GetUsersFound(users, query)]]
    /\ NoReturn
    /\ UNCHANGED <<txVars, lastCall, repoVars, uuids, now, registered, deactivated, linkVars>>

GetUsersExecute(p, query) == GetUsersExecuteWithin(p, query, MaxExecutions)

\* GetUsersUseCase.execute from the mapping to DTOs to the result
GetUsersReturn(p) ==
    /\ procs[p].kind = "getUsers"
    /\ procs[p].pc = "found"
    /\ Returns(p, ApplicationSuccess(
           [users |-> [k \in 1..Len(procs[p].found.users) |->
                          UserDto(procs[p].found.users[k])],
            total |-> procs[p].found.total,
            hasMore |-> procs[p].cmd.offset + PageLimit(procs[p].cmd)
                           < procs[p].found.total,
            offset |-> procs[p].cmd.offset,
            limit |-> PageLimit(procs[p].cmd)]))
    /\ UNCHANGED <<txVars, lastCall, repoVars, uuids, now, started, registered,
                   deactivated, linkVars>>

\* ------------------------------------------------ dependencies that throw

\* the error of a dependency that fails, as new Error("Database error")
InjectedError == Message("Database error", "")

\* the use cases that run under a transaction, and those that do not
TransactionalKinds == {"register", "login", "changePassword", "getUserProfile"}
PlainKinds == {"createUserUseCase", "getUser", "getUsers"}

\* the code of the outer catch of each use case
UseCaseErrorCode(kind) ==
    CASE kind = "register" -> "REGISTRATION_ERROR"
      [] kind = "login" -> "AUTHENTICATION_ERROR"
      [] kind = "changePassword" -> "PASSWORD_CHANGE_ERROR"
      [] kind = "getUserProfile" -> "PROFILE_RETRIEVAL_ERROR"
      [] OTHER -> "INTERNAL_ERROR"

\* a valid input of each use case under a transaction
ValidInputs(kind) ==
    CASE kind = "register" -> {BaseCommand}
      [] kind = "login" -> {BaseQuery}
      [] kind = "changePassword" ->
            {[userId |-> 1, currentPassword |-> "Passw0rd",
              newPassword |-> "Secret1x"]}
      [] OTHER -> {[userId |-> 1]}

\* execute() whose `await beginTransaction()` throws: no inner try was
\* entered, the outer catch returns the error (RegisterUser has drawn its
\* uuid by then)
BeginTransactionThrows(p, kind) ==
    /\ Free(p)
    /\ kind = "register" => uuids < MaxUsers
    /\ uuids' = IF kind = "register" THEN uuids + 1 ELSE uuids
    /\ \E cmd \in ValidInputs(kind) :
          returned' = [IdleProc EXCEPT !.kind = kind, !.pc = "done", !.cmd = cmd,
                          !.result = AuthError(InjectedError, UseCaseErrorCode(kind),
                                               [originalError |-> InjectedError])]
    /\ UNCHANGED <<txVars, lastCall, repoVars, procs, now, started, registered,
                   deactivated, linkVars>>

\* the call an execution under a transaction awaits (a repository call, a
\* domain-service call, commitTransaction) throws: into the inner catch
AwaitedCallThrows(p) ==
    /\ procs[p].kind \in TransactionalKinds
    /\ procs[p].pc \notin {"idle", "failed"}
    /\ procs' = [procs EXCEPT ![p].pc = "failed", ![p].error = InjectedError]
    /\ NoReturn
    /\ UNCHANGED <<txVars, lastCall, repoVars, uuids, now, started, registered,
                   deactivated, linkVars>>

\* rollbackTransaction throws in the inner catch: the error is logged and
\* the first error goes on to the outer catch
RollbackThrows(p) ==
    /\ procs[p].kind \in TransactionalKinds
    /\ procs[p].pc = "failed"
    /\ ~handles[procs[p].tx].isCommitted
    /\ ReturnsAfterRollback(p,
           AuthError(procs[p].error, UseCaseErrorCode(procs[p].kind),
                     [originalError |-> procs[p].error]),
           "thrown")
    /\ UNCHANGED <<txVars, lastCall, repoVars, uuids, now, started, registered,
                   deactivated, linkVars>>

\* the call a use case without a transaction awaits throws: its catch
\* returns the error
ServiceCallThrows(p) ==
    /\ procs[p].kind \in PlainKinds
    /\ procs[p].pc = "found"
    /\ Returns(p, ApplicationError(InjectedError, "INTERNAL_ERROR"))
    /\ UNCHANGED <<txVars, lastCall, repoVars, uuids, now, started, registered,
                   deactivated, linkVars>>

\* the clock read by Date.now() and new Date() advances
TickMs == 24 * 60 * 60 * 1000
Tick ==
    /\ now < MaxTicks * TickMs
    /\ now' = now + TickMs
    /\ NoReturn
    /\ UNCHANGED <<txVars, lastCall, repoVars, procs, uuids, started, registered,
                   deactivated, linkVars>>

InitTx ==
    /\ handles = <<>>
    /\ activeTransactions = {}
    /\ timers = {}
    /\ lastCall = [op |-> None, id |-> 0, outcome |-> None, pre |-> None, tick |-> 0]

InitApp ==
    /\ credentials = <<>>
    /\ emailToUserId = <<>>
    /\ users = <<>>
    /\ procs = [p \in ProcIds |-> IdleProc]
    /\ returned = IdleProc
    /\ uuids = 0
    /\ now = 0
    /\ started = 0
    /\ registered = {}
    /\ deactivated = {}

\* InMemoryLinkRepository as constructed: no link, no transaction
InitLinks ==
    /\ links = <<>>
    /\ transactionActive = FALSE
    /\ transactionLinks = Null

\* the state after construction
Init == InitTx /\ InitApp /\ InitLinks

NextTx ==
    \/ ClientBegin
    \/ ClientCommit
    \/ ClientRollback
    \/ ClientAbort
    \/ ClientHandleAbort
    \/ TimerFires
    \/ ClientClear

\* the manager alone, driven by a client that holds every handle
SpecTx == Init /\ [][NextTx]_vars

\* ---------------------------------------------- claims on the manager (SpecTx)

\* a step in which the client made a call on the manager
ClientCalled == lastCall' # lastCall

Completed(id) == handles[id].isCommitted \/ handles[id].isRolledBack

StatusAfter(id) == StatusOf(handles', activeTransactions', id)

\* C1: under commitTransaction, rollbackTransaction and abortTransaction calls
\* the status reported for a transaction moves among active, committed and
\* rolledback only as active -> committed or active -> rolledback: a
\* transaction reported committed is never afterwards reported rolledback or
\* active, one reported rolledback never committed or active, and one that
\* left the registry never comes back.
C1_StatusOnlyLeavesActive ==
    [][\A id \in TxIds :
          /\ getTransactionStatus(id) = "committed"
                => StatusAfter(id) \in {"committed", "not_found"}
          /\ getTransactionStatus(id) = "rolledback"
                => StatusAfter(id) \in {"rolledback", "not_found"}
          /\ getTransactionStatus(id) = "not_found"
                => StatusAfter(id) = "not_found"]_vars

\* a committed transaction on which a later rollback was tried, next to a
\* rolled-back one
C1_Witness ==
    /\ lastCall.op = "rollback"
    /\ lastCall.pre = "committed"
    /\ getTransactionStatus(lastCall.id) = "committed"
    /\ \E j \in TxIds : getTransactionStatus(j) = "rolledback"

\* C2 (as stated): on a handle that was committed or rolled back, every later
\* commitTransaction and rollbackTransaction fails with the already-completed
\* error, however much later it is made, and leaves the status unchanged.
C2_AlwaysAlreadyCompleted ==
    [][(/\ ClientCalled
        /\ lastCall'.op \in {"commit", "rollback"}
        /\ Completed(lastCall'.id))
       => /\ lastCall'.outcome = "already_completed"
          /\ handles' = handles
          /\ StatusAfter(lastCall'.id) = getTransactionStatus(lastCall'.id)]_vars

\* C2 (amended): such a call always fails and changes neither the handle nor
\* the status reported; the error is already-completed while the transaction
\* is still registered and not-found once it has left the registry.
C2_CompletedCallFails ==
    [][(/\ ClientCalled
        /\ lastCall'.op \in {"commit", "rollback"}
        /\ Completed(lastCall'.id))
       => /\ lastCall'.outcome =
                 (IF lastCall'.id \in activeTransactions
                  THEN "already_completed" ELSE "not_found")
          /\ handles' = handles
          /\ StatusAfter(lastCall'.id) = getTransactionStatus(lastCall'.id)]_vars

\* a rollback on a committed handle answered already-completed
C2_Witness ==
    /\ lastCall.op = "rollback"
    /\ lastCall.pre = "committed"
    /\ lastCall.outcome = "already_completed"
    /\ handles[lastCall.id].isCommitted
    /\ ~handles[lastCall.id].isRolledBack

\* C3: commit, rollback and abort of a handle whose id is not registered fail
\* with the not-found error, leave every handle's flags as they were (the
\* handle's commit and rollback are not invoked) and change the status of no
\* registered transaction.
C3_UnknownIdNotFound ==
    [][(/\ ClientCalled
        /\ lastCall'.op \in {"commit", "rollback", "abort"}
        /\ lastCall'.id \notin activeTransactions)
       => /\ lastCall'.outcome = "not_found"
          /\ handles' = handles
          /\ activeTransactions' = activeTransactions
          /\ \A j \in activeTransactions :
                StatusAfter(j) = getTransactionStatus(j)]_vars

\* a commit refused as not found on a handle that was never completed, while
\* another transaction is registered
C3_Witness ==
    /\ lastCall.op = "commit"
    /\ lastCall.outcome = "not_found"
    /\ lastCall.id \in TxIds
    /\ ~handles[lastCall.id].isCommitted
    /\ ~handles[lastCall.id].isRolledBack
    /\ activeTransactions # {}

\* what rollbackTransaction answers and the status it leaves, by the status
\* the transaction had
RollbackTable(status) ==
    CASE status = "not_found"  -> [outcome |-> "not_found", status |-> "not_found"]
      [] status = "active"     -> [outcome |-> "ok", status |-> "rolledback"]
      [] status = "committed"  -> [outcome |-> "already_completed", status |-> "committed"]
      [] status = "rolledback" -> [outcome |-> "already_completed", status |-> "rolledback"]

\* C4: from each of the four states, rollbackTransaction, abortTransaction and
\* the handle's abort() give one and the same answer and leave one and the
\* same status and handle flags.
C4_AbortIsRollback ==
    [][(/\ ClientCalled
        /\ lastCall'.op \in {"rollback", "abort", "handle.abort"})
       => LET id == lastCall'.id
              expected == RollbackTable(getTransactionStatus(id))
          IN /\ lastCall'.outcome = expected.outcome
             /\ StatusAfter(id) = expected.status
             /\ handles' = IF getTransactionStatus(id) = "active"
                           THEN HandleRollback(handles, id) ELSE handles]_vars

\* the handle's abort() refused on a committed transaction
C4_Witness ==
    /\ lastCall.op = "handle.abort"
    /\ lastCall.pre = "committed"
    /\ lastCall.outcome = "already_completed"
    /\ getTransactionStatus(lastCall.id) = "committed"

Next ==
    \/ \E p \in ProcIds, cmd \in RegisterCommands : RegisterStart(p, cmd)
    \/ \E p \in ProcIds : RegisterFindByEmail(p)
    \/ \E p \in ProcIds : RegisterCredentials(p)
    \/ \E p \in ProcIds : RegisterSaveUser(p)
    \/ \E p \in ProcIds : RegisterCommit(p)
    \/ \E p \in ProcIds : RegisterRollback(p)
    \/ \E p \in ProcIds, query \in LoginQueries : LoginStart(p, query)
    \/ \E p \in ProcIds : LoginFindByEmail(p)
    \/ \E p \in ProcIds : LoginAuthenticate(p)
    \/ \E p \in ProcIds : LoginCommit(p)
    \/ \E p \in ProcIds : LoginRollback(p)
    \/ TimerFires

\* the use cases the container wires, run as interleaved executions
Spec == Init /\ [][Next]_vars

\* the user domain service called next to the registration use case
NextDomain ==
    \/ \E p \in ProcIds, cmd \in RegisterCommands : RegisterStart(p, cmd)
    \/ \E p \in ProcIds : RegisterFindByEmail(p)
    \/ \E p \in ProcIds : RegisterCredentials(p)
    \/ \E p \in ProcIds : RegisterSaveUser(p)
    \/ \E p \in ProcIds : RegisterCommit(p)
    \/ \E p \in ProcIds : RegisterRollback(p)
    \/ \E p \in ProcIds, email \in DomainEmails, name \in {"John Doe"} :
          CreateUserFind(p, email, name)
    \/ \E p \in ProcIds : CreateUserSave(p)
    \/ \E p \in ProcIds, userId \in DomainUserIds, newName \in {"Jane Roe"} :
          UpdateUserProfileFind(p, userId, newName)
    \/ \E p \in ProcIds : UpdateUserProfileSave(p)
    \/ \E p \in ProcIds, userId \in DomainUserIds, newEmail \in DomainEmails :
          ChangeUserEmailFindByEmail(p, userId, newEmail)
    \/ \E p \in ProcIds : ChangeUserEmailFindById(p)
    \/ \E p \in ProcIds : ChangeUserEmailSave(p)
    \/ \E p \in ProcIds, userId \in DomainUserIds : DeleteUserFind(p, userId)
    \/ \E p \in ProcIds : DeleteUserDelete(p)
    \/ TimerFires
    \/ Tick

SpecDomain == Init /\ [][NextDomain]_vars

\* the account operations next to registration and login
AccountCommands == {BaseCommand, [BaseCommand EXCEPT !.email = "b@x.io"]}
AccountQueries == {BaseQuery, [BaseQuery EXCEPT !.password = "Secret1x"]}

NextAccount ==
    \/ \E p \in ProcIds, cmd \in AccountCommands :
          RegisterStartWithin(p, cmd, MaxAccountExecutions)
    \/ \E p \in ProcIds : RegisterFindByEmail(p)
    \/ \E p \in ProcIds : RegisterCredentials(p)
    \/ \E p \in ProcIds : RegisterSaveUser(p)
    \/ \E p \in ProcIds : RegisterCommit(p)
    \/ \E p \in ProcIds : RegisterRollback(p)
    \/ \E p \in ProcIds, query \in AccountQueries :
          LoginStartWithin(p, query, MaxAccountExecutions)
    \/ \E p \in ProcIds : LoginFindByEmail(p)
    \/ \E p \in ProcIds : LoginAuthenticate(p)
    \/ \E p \in ProcIds : LoginCommit(p)
    \/ \E p \in ProcIds : LoginRollback(p)
    \/ \E p \in ProcIds, cmd \in ChangePasswordCommands : ChangePasswordStart(p, cmd)
    \/ \E p \in ProcIds : ChangePasswordFind(p)
    \/ \E p \in ProcIds : ChangePasswordSave(p)
    \/ \E p \in ProcIds : ChangePasswordCommit(p)
    \/ \E p \in ProcIds : ChangePasswordRollback(p)
    \/ \E p \in ProcIds, userId \in DomainUserIds : DeactivateUserFind(p, userId)
    \/ \E p \in ProcIds : DeactivateUserSave(p)
    \/ \E p \in ProcIds, userId \in DomainUserIds : ReactivateUserFind(p, userId)
    \/ \E p \in ProcIds : ReactivateUserSave(p)
    \/ TimerFires

SpecAccount == Init /\ [][NextAccount]_vars

\* ------------------------------------------------- the three auth use cases

\* RegisterUser, Login and ChangePassword with every command tried, valid
\* and invalid, as interleaved executions
NextValidation ==
    \/ \E p \in ProcIds, cmd \in RegisterCommands : RegisterStart(p, cmd)
    \/ \E p \in ProcIds : RegisterFindByEmail(p)
    \/ \E p \in ProcIds : RegisterCredentials(p)
    \/ \E p \in ProcIds : RegisterSaveUser(p)
    \/ \E p \in ProcIds : RegisterCommit(p)
    \/ \E p \in ProcIds : RegisterRollback(p)
    \/ \E p \in ProcIds, query \in LoginQueries : LoginStart(p, query)
    \/ \E p \in ProcIds : LoginFindByEmail(p)
    \/ \E p \in ProcIds : LoginAuthenticate(p)
    \/ \E p \in ProcIds : LoginCommit(p)
    \/ \E p \in ProcIds : LoginRollback(p)
    \/ \E p \in ProcIds, cmd \in ChangePasswordCommands :
          ChangePasswordStartWithin(p, cmd, MaxExecutions)
    \/ \E p \in ProcIds : ChangePasswordFind(p)
    \/ \E p \in ProcIds : ChangePasswordSave(p)
    \/ \E p \in ProcIds : ChangePasswordCommit(p)
    \/ \E p \in ProcIds : ChangePasswordRollback(p)
    \/ TimerFires

SpecValidation == Init /\ [][NextValidation]_vars

\* ------------------------------------ the seven use cases and their faults

\* the execution in slot p goes on from the call it awaited, which returned
Proceeds(p) ==
    \/ RegisterFindByEmail(p)
    \/ RegisterCredentials(p)
    \/ RegisterSaveUser(p)
    \/ RegisterCommit(p)
    \/ RegisterRollback(p)
    \/ LoginFindByEmail(p)
    \/ LoginAuthenticate(p)
    \/ LoginCommit(p)
    \/ LoginRollback(p)
    \/ ChangePasswordFind(p)
    \/ ChangePasswordSave(p)
    \/ ChangePasswordCommit(p)
    \/ ChangePasswordRollback(p)
    \/ GetUserProfileFind(p)
    \/ GetUserProfileCommit(p)
    \/ GetUserProfileRollback(p)
    \/ CreateUserExecuteSave(p)
    \/ GetUserReturn(p)
    \/ GetUsersReturn(p)

\* a step of the execution in slot p: the call it awaited returned or threw
Continues(p) ==
    \/ Proceeds(p)
    \/ AwaitedCallThrows(p)
    \/ RollbackThrows(p)
    \/ ServiceCallThrows(p)

\* no execution is under way
AllReturned == \A p \in ProcIds : procs[p].pc = "idle"

\* execute() is called, with a valid or an invalid input, or with a
\* transaction manager whose beginTransaction throws
Executes ==
    \/ \E p \in ProcIds, cmd \in {BaseCommand, [BaseCommand EXCEPT !.name = "J"]} :
          RegisterStart(p, cmd)
    \/ \E p \in ProcIds, query \in {BaseQuery, [BaseQuery EXCEPT !.email = ""]} :
          LoginStart(p, query)
    \/ \E p \in ProcIds, cmd \in ValidInputs("changePassword")
                                   \cup {[userId |-> 1, currentPassword |-> "",
                                          newPassword |-> "Secret1x"]} :
          ChangePasswordStartWithin(p, cmd, MaxExecutions)
    \/ \E p \in ProcIds, userId \in RawUserIds :
          GetUserProfileStart(p, [userId |-> userId])
    \/ \E p \in ProcIds, cmd \in CreateUserCommands : CreateUserExecute(p, cmd)
    \/ \E p \in ProcIds, userId \in RawUserIds :
          GetUserExecute(p, [userId |-> userId])
    \/ \E p \in ProcIds, query \in GetUsersQueries : GetUsersExecute(p, query)
    \/ \E p \in ProcIds, kind \in TransactionalKinds : BeginTransactionThrows(p, kind)

\* the caller awaits each execute() before the next; every awaited call is
\* free to throw, and a holder of the manager may abort a transaction
NextFaults ==
    \/ AllReturned /\ Executes
    \/ \E p \in ProcIds : Continues(p)
    \/ ClientAbort
    \/ TimerFires

SpecFaults == Init /\ [][NextFaults]_vars

\* the event loop runs every continuation that is ready
SpecFaultsFair ==
    SpecFaults /\ \A p \in ProcIds : WF_vars(Continues(p))

\* ------------------------------- the repositories under a client's handles

\* the transaction argument of a repository call: a handle the client
\* holds, or 0 for none
HandlesHeld == TxIds
HandleOrNone == TxIds \cup {0}

\* the user and the credentials a client saves under the id userId
StoredUser(userId) ==
    NewUser(userId, "a@x.io", "John Doe", None, TRUE, FALSE, "USER", "STANDARD")
StoredCredentials(userId) ==
    UserCredentialsCreate("a@x.io", PasswordCreate("Passw0rd"), userId)

\* the call made on a repository and what it returned
RepositoryCall(op, userId, tx, value) ==
    returned' = [IdleProc EXCEPT !.kind = op, !.pc = "done",
                                 !.cmd = [userId |-> userId], !.tx = tx,
                                 !.found = value]

\* InMemoryUserRepository.save(user, transaction)
RepositorySave(userId, tx) ==
    /\ users' = UserSave(users, StoredUser(userId))
    /\ RepositoryCall("save", userId, tx, StoredUser(userId))
    /\ UNCHANGED <<txVars, lastCall, credentials, emailToUserId, procs, uuids,
                   now, started, registered, deactivated, linkVars>>

\* InMemoryUserRepository.delete(id, transaction)
RepositoryDelete(userId, tx) ==
    /\ users' = UserDelete(users, userId)
    /\ RepositoryCall("delete", userId, tx, Null)
    /\ UNCHANGED <<txVars, lastCall, credentials, emailToUserId, procs, uuids,
                   now, started, registered, deactivated, linkVars>>

\* InMemoryUserRepository.findById(id, transaction)
RepositoryFindById(userId, tx) ==
    /\ RepositoryCall("findById", userId, tx, UserFindById(users, userId))
    /\ UNCHANGED <<txVars, lastCall, repoVars, procs, uuids, now, started,
                   registered, deactivated, linkVars>>

\* InMemoryUserCredentialsRepository.save(credentials, transaction)
CredentialsRepositorySave(userId, tx) ==
    /\ CredentialsSave(StoredCredentials(userId))
    /\ RepositoryCall("credentials.save", userId, tx, StoredCredentials(userId))
    /\ UNCHANGED <<txVars, lastCall, users, procs, uuids, now, started,
                   registered, deactivated, linkVars>>

\* InMemoryUserCredentialsRepository.findByUserId(userId, transaction)
CredentialsRepositoryFindByUserId(userId, tx) ==
    /\ RepositoryCall("credentials.findByUserId", userId, tx,
                      CredentialsFindByUserId(userId))
    /\ UNCHANGED <<txVars, lastCall, repoVars, procs, uuids, now, started,
                   registered, deactivated, linkVars>>

\* a client that begins transactions, writes the records of one user under
\* their handles, reads with any handle or none, and commits, rolls back or
\* aborts, all within the 100 ms before the first cleanup timer
NextStore ==
    \/ ClientBegin
    \/ ClientCommit
    \/ ClientRollback
    \/ ClientAbort
    \/ \E tx \in HandlesHeld : RepositorySave(1, tx)
    \/ \E tx \in HandlesHeld : RepositoryDelete(1, tx)
    \/ \E tx \in HandleOrNone : RepositoryFindById(1, tx)
    \/ \E tx \in HandlesHeld : CredentialsRepositorySave(1, tx)
    \/ \E tx \in HandleOrNone : CredentialsRepositoryFindByUserId(1, tx)

SpecStore == Init /\ [][NextStore]_vars

\* --------------------------------------------------- the user domain service

\* the calls of UserDomainService on the user repository, up to
\* MaxUserExecutions of them, and the clock
NextUsers ==
    \/ \E p \in ProcIds, email \in DomainEmails, name \in {"John Doe"} :
          CreateUserFindWithin(p, email, name, MaxUserExecutions)
    \/ \E p \in ProcIds : CreateUserSave(p)
    \/ \E p \in ProcIds, userId \in DomainUserIds, newName \in {"Jane Roe"} :
          UpdateUserProfileFindWithin(p, userId, newName, MaxUserExecutions)
    \/ \E p \in ProcIds : UpdateUserProfileSave(p)
    \/ \E p \in ProcIds, userId \in DomainUserIds, newEmail \in DomainEmails :
          ChangeUserEmailFindByEmailWithin(p, userId, newEmail, MaxUserExecutions)
    \/ \E p \in ProcIds : ChangeUserEmailFindById(p)
    \/ \E p \in ProcIds : ChangeUserEmailSave(p)
    \/ \E p \in ProcIds, userId \in DomainUserIds :
          DeleteUserFindWithin(p, userId, MaxUserExecutions)
    \/ \E p \in ProcIds : DeleteUserDelete(p)
    \/ Tick

SpecUsers == Init /\ [][NextUsers]_vars

\* ----------------------------------------------------- User.canBeDeleted()

\* the creation times and the clock readings tried, in milliseconds: the
\* ages now - createdAt run from below zero, over 24 h - MaxCreatedAtMs
\* .. 24 h + MaxCreatedAtMs + MaxSkewMs, each side of the boundary
CreatedAts == 0..MaxCreatedAtMs
Nows ==
    (0..MaxCreatedAtMs)
      \cup {TwentyFourHours + d : d \in 0..(MaxCreatedAtMs + MaxSkewMs)}

\* new User(id, email, name, createdAt) held by the repository, and the clock
InitCanBeDeleted ==
    /\ InitTx
    /\ credentials = <<>>
    /\ emailToUserId = <<>>
    /\ \E c \in CreatedAts :
          users = <<[id |-> 1, email |-> "a@x.io", name |-> "Ann",
                     createdAt |-> c, profileImage |-> None,
                     isActive |-> TRUE, isVerified |-> FALSE,
                     role |-> "USER", plan |-> "STANDARD"]>>
    /\ procs = [p \in ProcIds |-> IdleProc]
    /\ returned = IdleProc
    /\ uuids = 1
    /\ now \in Nows
    /\ started = 0
    /\ registered = {}
    /\ deactivated = {}
    /\ InitLinks

\* user.canBeDeleted() is called and its value observed
CanBeDeletedCall ==
    /\ returned = IdleProc
    /\ returned' = [IdleProc EXCEPT !.kind = "canBeDeleted", !.pc = "done",
                                    !.found = users[1],
                                    !.result = Resolved(canBeDeleted(users[1]))]
    /\ UNCHANGED <<txVars, lastCall, repoVars, procs, uuids, now, started,
                   registered, deactivated, linkVars>>

NextCanBeDeleted == CanBeDeletedCall

SpecCanBeDeleted == InitCanBeDeleted /\ [][NextCanBeDeleted]_vars

\* ------------------------------------------ claims on the auth use cases

\* an execution of RegisterUser is between its start and its return
RegisterInProgress == \E p \in ProcIds : procs[p].kind = "register"

\* the step is taken by an execution of RegisterUser that was started after
\* a registration of its email had returned success
DuplicateStep ==
    \/ returned'.kind = "register" /\ returned'.dup
    \/ \E p \in ProcIds : /\ procs'[p] # procs[p]
                          /\ \/ procs[p].kind = "register" /\ procs[p].dup
                             \/ procs'[p].kind = "register" /\ procs'[p].dup

\* the result of a RegisterUser execution that found the email taken
AlreadyExistsFailure(r) ==
    /\ ~r.result.success
    /\ r.tx # 0
    /\ r.result.error = AlreadyExistsMessage(r.cmd.email)
    /\ handles[r.tx].isRolledBack
    /\ ~handles[r.tx].isCommitted

\* C6 as stated: every RegisterUser execution started after a successful
\* registration of the same email (compared case-insensitively) returns the
\* already-exists failure with its transaction rolled back, and changes
\* neither repository.
C6_EveryDuplicateAlreadyExists ==
    [][/\ DuplicateStep => UNCHANGED repoVars
       /\ (returned'.kind = "register" /\ returned'.dup) =>
             /\ ~returned'.result.success
             /\ returned'.tx # 0
             /\ returned'.result.error = AlreadyExistsMessage(returned'.cmd.email)
             /\ handles'[returned'.tx].isRolledBack
             /\ ~handles'[returned'.tx].isCommitted]_vars

\* C6: a RegisterUser execution started after a successful registration of
\* the same email (compared case-insensitively) never returns success and
\* never changes the credentials or the user repository; when its command
\* passes validation it returns the already-exists failure and its
\* transaction is rolled back, and when its command fails validation it
\* returns that validation error and begins no transaction.
C6_DuplicateRegistrationFails ==
    [][/\ DuplicateStep => UNCHANGED repoVars
       /\ (returned'.kind = "register" /\ returned'.dup) =>
             /\ ~returned'.result.success
             /\ IF RegisterValidation(returned'.cmd) = Null
                THEN /\ returned'.tx # 0
                     /\ returned'.result.error =
                            AlreadyExistsMessage(returned'.cmd.email)
                     /\ returned'.result.errorCode = "REGISTRATION_ERROR"
                     /\ handles'[returned'.tx].isRolledBack
                     /\ ~handles'[returned'.tx].isCommitted
                ELSE /\ returned'.tx = 0
                     /\ returned'.result = RegisterValidation(returned'.cmd)
                     /\ UNCHANGED txVars]_vars

\* a registration of an email that differs only in case from the one stored
\* has returned the already-exists failure
C6_Witness ==
    /\ returned.kind = "register"
    /\ returned.dup
    /\ AlreadyExistsFailure(returned)
    /\ \E u \in DOMAIN credentials :
          /\ credentials[u].email # returned.cmd.email
          /\ ToLowerCase(credentials[u].email) = ToLowerCase(returned.cmd.email)

\* C7: a RegisterUser execution whose findByEmail check found no credentials
\* record saves its credentials and its User and returns success whatever
\* other executions stored in between, so two executions for the same email
\* that both pass the check both succeed and leave two credentials records
\* and two User records with that email and different user ids; the
\* transaction handles they hold do not prevent it.
C7_PassedCheckAlwaysSucceeds ==
    (returned.kind = "register" /\ returned.tx # 0 /\ returned.found = Null) =>
        /\ returned.result.success
        /\ handles[returned.tx].isCommitted
        /\ returned.userId \in DOMAIN credentials
        /\ credentials[returned.userId].email = returned.cmd.email
        /\ UserFindById(users, returned.userId) # Null
        /\ UserFindById(users, returned.userId).email = returned.cmd.email

\* two registrations of the same email have both returned success, and both
\* stores hold two records with that email under different user ids
C7_Witness ==
    \E r1 \in registered, r2 \in registered :
        /\ r1.email = r2.email
        /\ r1.userId # r2.userId
        /\ \A r \in {r1, r2} :
              /\ r.userId \in DOMAIN credentials
              /\ ToLowerCase(credentials[r.userId].email) = r.email
              /\ UserFindById(users, r.userId) # Null
              /\ ToLowerCase(UserFindById(users, r.userId).email) = r.email
        /\ \A id \in TxIds : handles[id].isCommitted

LoginRefusal(password) ==
    IF password = ""
    THEN AuthError(Message("Email and password are required", ""),
                   "VALIDATION_ERROR", Null)
    ELSE IF PasswordError(password) # Null
    THEN AuthError(PasswordError(password), "INVALID_PASSWORD", Null)
    ELSE AuthError(InvalidCredentialsMessage, "AUTHENTICATION_ERROR",
                   [originalError |-> InvalidCredentialsMessage])

\* C10: for an email and a password, the result Login returns when the
\* email has no credentials record and the result it returns when the email
\* has an active record whose password does not match are the same: in both
\* cases the result is determined by the password alone, error message and
\* error code included.
C10_RefusalTellsNothing ==
    (returned.kind = "login" /\ returned.saw \in {"no_record", "mismatch"}) =>
        IF EmailError(returned.cmd.email) = Null /\ returned.cmd.email # ""
        THEN returned.result = LoginRefusal(returned.cmd.password)
        ELSE returned.saw = "no_record" /\ returned.tx = 0

\* a Login with a well-formed password that does not match the active
\* record of its email has returned
C10_Witness ==
    /\ returned.kind = "login"
    /\ returned.saw = "mismatch"
    /\ returned.tx # 0
    /\ returned.result.errorCode = "AUTHENTICATION_ERROR"
    /\ returned.result.error = InvalidCredentialsMessage

\* a Login with the same well-formed password for an email without a record
\* has returned
C10_NoRecordReached ==
    /\ returned.kind = "login"
    /\ returned.saw = "no_record"
    /\ returned.tx # 0
    /\ returned.result.error = InvalidCredentialsMessage

\* ------------------------------------- claims on the user domain service

\* C8: in every state reached by calls of UserDomainService.createUser,
\* changeUserEmail, updateUserProfile, deleteUser and
\* RegisterUserUseCase.execute, no two User records stored in the user
\* repository have the same email.
C8_UserEmailsUnique ==
    \A i \in 1..Len(users), j \in 1..Len(users) :
        i # j => EmailValue(users[i].email) # EmailValue(users[j].email)

\* createUser has stored a User, no execution is in flight, and a
\* registration of the same email has then stored a second User
C8_CreateThenRegister ==
    /\ Len(users) = 2
    /\ EmailValue(users[1].email) = EmailValue(users[2].email)
    /\ users[1].isVerified
    /\ ~users[2].isVerified
    /\ users[1].id < users[2].id
    /\ returned.kind = "register"
    /\ returned.result.success

\* ------------------------------------- claims on the account operations

\* the step is the second segment of authenticateUser in execution p
AuthenticateStep(p) ==
    /\ procs[p].kind = "login"
    /\ procs[p].pc = "found"
    /\ procs'[p].pc # "found"

\* C11: authenticateUser on a credentials record with isActive = false
\* fails with the user-inactive error whether or not the password matches;
\* once deactivateUser(u) has returned, the stored isActive of u stays false
\* and no authenticateUser for u succeeds until reactivateUser(u) is called.
C11_DeactivatedStaysInactive ==
    [][/\ \A p \in ProcIds :
             (AuthenticateStep(p) /\ procs[p].found # Null /\ ~procs[p].found.isActive)
                 => procs'[p].error = UserInactiveMessage
       /\ \A u \in deactivated' :
             u \in DOMAIN credentials' /\ ~credentials'[u].isActive
       /\ \A p \in ProcIds :
             (AuthenticateStep(p) /\ procs'[p].pc = "authenticated")
                 => procs[p].found.userId \notin deactivated]_vars

\* deactivateUser(u) has returned, reactivateUser(u) was not called, and a
\* Login for u returns success, leaving the stored record active
C11_LoginAfterDeactivation ==
    /\ returned.kind = "login"
    /\ returned.result.success
    /\ returned.userId \in deactivated
    /\ credentials[returned.userId].isActive

\* execution p is a ChangePassword whose currentPassword does not match the
\* hash of the record changePassword found
WrongCurrentPassword(p) ==
    /\ procs[p].kind = "changePassword"
    /\ procs[p].pc \in {"found", "failed"}
    /\ procs[p].found # Null
    /\ ~PasswordCompare(procs[p].found.password, procs[p].cmd.currentPassword)

\* C12: a ChangePassword whose currentPassword does not match the stored
\* hash returns a failure (Current password is incorrect), rolls its
\* transaction back and writes nothing to the repositories, so the record
\* of the user stays as it was; a Login that finds an active record succeeds
\* exactly when its password matches the stored hash, so the old password
\* still logs in and the rejected new one does not.
C12_WrongCurrentPasswordChangesNothing ==
    [][/\ \A p \in ProcIds :
             (WrongCurrentPassword(p) /\ procs'[p] # procs[p]) =>
                 /\ UNCHANGED repoVars
                 /\ procs[p].pc = "found" =>
                       /\ procs'[p].pc = "failed"
                       /\ procs'[p].error = InvalidCurrentPasswordMessage
                 /\ procs[p].pc = "failed" =>
                       /\ returned'.kind = "changePassword"
                       /\ ~returned'.result.success
                       /\ returned'.result.error = InvalidCurrentPasswordMessage
                       /\ returned'.result.errorCode = "PASSWORD_CHANGE_ERROR"
                       /\ handles'[procs[p].tx].isRolledBack
                       /\ ~handles'[procs[p].tx].isCommitted
       /\ \A p \in ProcIds :
             (AuthenticateStep(p) /\ procs[p].found # Null /\ procs[p].found.isActive) =>
                 (procs'[p].pc = "authenticated"
                    <=> PasswordCompare(procs[p].found.password, procs[p].cmd.password))
      ]_vars

\* a ChangePassword with a wrong current password has returned its failure,
\* and the stored record still carries the hash of the old password and not
\* that of the rejected new one
C12_Witness ==
    /\ returned.kind = "changePassword"
    /\ returned.tx # 0
    /\ returned.result.error = InvalidCurrentPasswordMessage
    /\ handles[returned.tx].isRolledBack
    /\ credentials[returned.cmd.userId] = returned.found
    /\ PasswordCompare(credentials[returned.cmd.userId].password, "Passw0rd")
    /\ ~PasswordCompare(credentials[returned.cmd.userId].password,
                        returned.cmd.newPassword)

\* the record c with nothing changed but lastLoginAt and updatedAt
SameButLogin(c, d) ==
    /\ d.email = c.email
    /\ d.password = c.password
    /\ d.userId = c.userId
    /\ d.isActive = c.isActive
    /\ d.createdAt = c.createdAt

\* every credentials record but that of user u is as it was, and the email
\* index changes at most in pointing the email of u's record at u
OtherCredentialsUntouched(u) ==
    /\ DOMAIN credentials' = DOMAIN credentials \cup {u}
    /\ \A v \in DOMAIN credentials : v # u => credentials'[v] = credentials[v]
    /\ DOMAIN emailToUserId' = DOMAIN emailToUserId
    /\ \A e \in DOMAIN emailToUserId :
          emailToUserId'[e] # emailToUserId[e] =>
              /\ emailToUserId'[e] = u
              /\ credentials'[u].email = e

SameButActive(c, d) ==
    /\ d.email = c.email
    /\ d.password = c.password
    /\ d.userId = c.userId
    /\ d.lastLoginAt = c.lastLoginAt
    /\ d.createdAt = c.createdAt

\* execution p is a deactivateUser or reactivateUser about to check the
\* record it read and to save
ToggleStep(p) ==
    /\ procs[p].kind \in {"deactivateUser", "reactivateUser"}
    /\ procs[p].pc = "found"
    /\ procs'[p] # procs[p]

ObservedAge == now - returned.found.createdAt

\* C15 as stated: canBeDeleted() is true if and only if
\* now - createdAt >= 24 h, so true at exactly 24 h.
C15_TrueFromTwentyFourHours ==
    returned.kind = "canBeDeleted" =>
        (returned.result.data <=> ObservedAge >= TwentyFourHours)

\* C15: for every creation time and every clock reading in whole
\* milliseconds canBeDeleted() is true if and only if now - createdAt is
\* more than 24 h: true at 24 h + 1 ms, false at exactly 24 h and at
\* 24 h - 1 ms.
C15_TrueAfterTwentyFourHours ==
    returned.kind = "canBeDeleted" =>
        /\ returned.result.data <=> ObservedAge > TwentyFourHours
        /\ ObservedAge = TwentyFourHours + 1 => returned.result.data
        /\ ObservedAge = TwentyFourHours => ~returned.result.data
        /\ ObservedAge = TwentyFourHours - 1 => ~returned.result.data

\* canBeDeleted() was called on a user created exactly 24 hours before
C15_Witness ==
    /\ returned.kind = "canBeDeleted"
    /\ ObservedAge = TwentyFourHours
    /\ ~returned.result.data

\* --------------------------------------- claims on the user domain service

\* the records a user repository holds
UserRecords(us) == {us[i] : i \in 1..Len(us)}

\* execution p is a deleteUser about to check the user it read
DeleteStep(p) ==
    /\ procs[p].kind = "deleteUser"
    /\ procs[p].pc = "found"
    /\ procs'[p] # procs[p]

\* C16: deleteUser(id) reads the user when it is called and writes nothing
\* then; for an unknown id it fails with UserNotFoundError, for a user not
\* yet older than 24 hours with UserCannotBeDeletedError, the repositories
\* unchanged in both cases; otherwise it succeeds. It removes no record but
\* those of that id, and whatever it removes was created more than 24 hours
\* before.
C16_DeleteOnlyAfterTwentyFourHours ==
    [][\A p \in ProcIds :
          /\ (procs[p].pc = "idle" /\ procs'[p].kind = "deleteUser") =>
                /\ UNCHANGED repoVars
                /\ procs'[p].found = UserFindById(users, procs'[p].cmd.userId)
          /\ (DeleteStep(p) /\ procs[p].found = Null) =>
                /\ UNCHANGED repoVars
                /\ returned'.result
                      = Rejected(UserNotFoundMessage(procs[p].cmd.userId))
          /\ (DeleteStep(p) /\ procs[p].found # Null
                /\ now - procs[p].found.createdAt <= TwentyFourHours) =>
                /\ UNCHANGED repoVars
                /\ returned'.result
                      = Rejected(UserCannotBeDeletedMessage(procs[p].cmd.userId))
          /\ (DeleteStep(p) /\ procs[p].found # Null
                /\ now - procs[p].found.createdAt > TwentyFourHours) =>
                /\ returned'.result.success
                /\ UserFindById(users', procs[p].cmd.userId) = Null
          /\ DeleteStep(p) =>
                /\ UNCHANGED <<credentials, emailToUserId>>
                /\ UserRecords(users') \subseteq UserRecords(users)
                /\ \A r \in UserRecords(users) \ UserRecords(users') :
                      /\ r.id = procs[p].cmd.userId
                      /\ now - r.createdAt > TwentyFourHours
      ]_vars

\* deleteUser has returned having removed a user, and another user is
\* still stored
C16_Witness ==
    /\ returned.kind = "deleteUser"
    /\ returned.result.success
    /\ returned.found # Null
    /\ UserFindById(users, returned.cmd.userId) = Null
    /\ users # <<>>

\* a stored user other than u holds the email e / the stored user u holds it
HeldByAnother(us, u, e) ==
    \E r \in UserRecords(us) : r.id # u /\ EmailValue(r.email) = EmailValue(e)
HeldByItself(us, u, e) ==
    \E r \in UserRecords(us) : r.id = u /\ EmailValue(r.email) = EmailValue(e)

\* the user record r with nothing changed but its email
SameButEmail(r, d) ==
    /\ d.id = r.id
    /\ d.name = r.name
    /\ d.createdAt = r.createdAt
    /\ d.profileImage = r.profileImage
    /\ d.isActive = r.isActive
    /\ d.isVerified = r.isVerified
    /\ d.role = r.role
    /\ d.plan = r.plan

InvalidInput(kind, cmd) ==
    IF kind = "register"
    THEN \/ cmd.email = "" \/ cmd.password = "" \/ cmd.name = ""
         \/ EmailError(cmd.email) # Null
         \/ PasswordError(cmd.password) # Null
         \/ UserNameError(cmd.name) # Null
         \/ UserRoleError(cmd.role) # Null
         \/ UserPlanError(cmd.plan) # Null
    ELSE IF kind = "login"
    THEN \/ cmd.email = "" \/ cmd.password = ""
         \/ EmailError(cmd.email) # Null
         \/ PasswordError(cmd.password) # Null
    ELSE /\ kind = "changePassword"
         /\ \/ cmd.currentPassword = "" \/ cmd.newPassword = ""
            \/ PasswordError(cmd.newPassword) # Null

ValidationCodes ==
    {"VALIDATION_ERROR", "INVALID_EMAIL", "INVALID_PASSWORD", "INVALID_NAME",
     "INVALID_ROLE", "INVALID_PLAN"}

\* C19: a RegisterUser, Login or ChangePassword execution whose input is
\* invalid never begins a transaction: it returns a failure with a
\* validation code in the step that was called, no call to the manager
\* made, and the credentials repository, the user repository and the
\* transaction registry are exactly as they were.
C19_RejectedInputChangesNothing ==
    [][/\ (returned'.kind \in {"register", "login", "changePassword"}
             /\ InvalidInput(returned'.kind, returned'.cmd)) =>
                /\ ~returned'.result.success
                /\ returned'.result.errorCode \in ValidationCodes
                /\ returned'.tx = 0
                /\ UNCHANGED <<repoVars, txVars, lastCall, procs>>
       /\ \A p \in ProcIds :
             (procs'[p].kind \in {"register", "login", "changePassword"}
                /\ procs'[p].tx # 0) =>
                   ~InvalidInput(procs'[p].kind, procs'[p].cmd)
      ]_vars

\* a ChangePassword with a weak new password has been refused while a user
\* is registered and another execution holds an active transaction
C19_Witness ==
    /\ returned.kind = "changePassword"
    /\ returned.result.errorCode = "INVALID_PASSWORD"
    /\ credentials # <<>>
    /\ users # <<>>
    /\ activeTransactions # {}

\* ------------------------------------------- claims on the repositories

\* a repository was called in this step
RepositoryStep(op) == returned' # returned /\ returned'.kind = op

\* C20: the repositories write straight through whatever handle is passed.
\* A save under a handle is in the store at once, a delete removes at once,
\* committed or not; every read, with any handle or none, returns what the
\* store holds then; and no call of the manager (begin, commit, rollback,
\* abort) changes the contents of either repository, so a rollback or an
\* abort leaves them as they were just before it.
C20_WritesGoStraightThrough ==
    [][/\ RepositoryStep("save") =>
             /\ UserFindById(users', returned'.cmd.userId) = returned'.found
             /\ UNCHANGED <<credentials, emailToUserId, txVars>>
       /\ RepositoryStep("delete") =>
             /\ UserFindById(users', returned'.cmd.userId) = Null
             /\ UNCHANGED <<credentials, emailToUserId, txVars>>
       /\ RepositoryStep("credentials.save") =>
             /\ returned'.cmd.userId \in DOMAIN credentials'
             /\ credentials'[returned'.cmd.userId] = returned'.found
             /\ emailToUserId'[EmailValue(returned'.found.email)]
                   = returned'.cmd.userId
             /\ UNCHANGED <<users, txVars>>
       /\ RepositoryStep("findById") =>
             /\ returned'.found = UserFindById(users, returned'.cmd.userId)
             /\ UNCHANGED <<repoVars, txVars>>
       /\ RepositoryStep("credentials.findByUserId") =>
             /\ returned'.found = CredentialsFindByUserId(returned'.cmd.userId)
             /\ UNCHANGED <<repoVars, txVars>>
       /\ (lastCall' # lastCall \/ txVars' # txVars) => UNCHANGED repoVars
      ]_vars

\* a read without a handle returns the credentials saved under a handle
\* that was rolled back, while no transaction has ever been committed
C20_Witness ==
    /\ returned.kind = "credentials.findByUserId"
    /\ returned.tx = 0
    /\ returned.found # Null
    /\ handles # <<>>
    /\ \A t \in TxIds : handles[t].isRolledBack /\ ~handles[t].isCommitted
    /\ lastCall.op \in {"rollback", "abort"}
    /\ users # <<>>

\* --------------------------------------------- claims on the seven execute()

\* a result value: success with data, or failure with an error text and an
\* error code
IsResult(r) ==
    /\ DOMAIN r = {"success", "error", "errorCode", "details", "data"}
    /\ r.success \in BOOLEAN
    /\ IF r.success THEN r.data # Null
       ELSE r.error # Null /\ r.errorCode # None

\* C18: every execute() of RegisterUser, Login, ChangePassword,
\* GetUserProfile, CreateUser, GetUser and GetUsers that was called returns,
\* and what it returns is a result value, success with data or failure with
\* an error text and an error code, never an error thrown to the caller,
\* whichever step fails: a value object, a repository call, a rule of a
\* domain service, beginTransaction, commitTransaction or
\* rollbackTransaction.
C18_ExecuteAlwaysReturnsAResult ==
    /\ [](returned.pc = "done" => IsResult(returned.result))
    /\ [](\A p \in ProcIds : procs[p].pc # "idle" => ENABLED Proceeds(p))
    /\ \A p \in ProcIds : (procs[p].pc # "idle") ~> (procs[p].pc = "idle")

\* an execution under a transaction has returned the error of a call that
\* threw although its rollback threw as well: the handle is still open
C18_Witness ==
    /\ returned.pc = "done"
    /\ returned.kind \in TransactionalKinds
    /\ returned.tx # 0
    /\ returned.result.error = InjectedError
    /\ returned.result.errorCode = UseCaseErrorCode(returned.kind)
    /\ ~handles[returned.tx].isRolledBack
    /\ ~handles[returned.tx].isCommitted

\* ------------------------------------- registration and the user's properties

\* the commands of the property tests: no optional field, all of them, and
\* role and plan in either letter case
PropertyCommands ==
    {[BaseCommand EXCEPT !.email = e] : e \in {"a@x.io", "b@x.io"}}
    \cup {[BaseCommand EXCEPT !.role = "ADMIN", !.plan = "PREMIUM",
                              !.profileImage = "p.png"]}
    \cup {[BaseCommand EXCEPT !.role = r] : r \in {"admin", "USER"}}
    \cup {[BaseCommand EXCEPT !.plan = pl] : pl \in {"premium", "STANDARD"}}

NextProperties ==
    \/ \E p \in ProcIds, cmd \in PropertyCommands :
          RegisterStartWithin(p, cmd, MaxExecutions)
    \/ \E p \in ProcIds : RegisterFindByEmail(p)
    \/ \E p \in ProcIds : RegisterCredentials(p)
    \/ \E p \in ProcIds : RegisterSaveUser(p)
    \/ \E p \in ProcIds : RegisterCommit(p)
    \/ \E p \in ProcIds : RegisterRollback(p)
    \/ TimerFires

\* RegisterUser alone, called with the commands of the property tests
SpecProperties == Init /\ [][NextProperties]_vars

\* a RegisterUser execution has returned for a command that is valid and
\* whose email had no credentials record when the execution looked for one
UnusedValidRegistration ==
    /\ returned.kind = "register"
    /\ returned.pc = "done"
    /\ RegisterValidation(returned.cmd) = Null
    /\ returned.tx # 0
    /\ returned.found = Null

\* the properties of a User or of the data of a result that the command
\* does not carry
DefaultedProperties(r) ==
    /\ r.isActive = TRUE
    /\ r.isVerified = FALSE
    /\ r.profileImage = returned.cmd.profileImage

\* role and plan as the command gives them, USER and STANDARD without
SuppliedRoleAndPlan(r) ==
    /\ r.role = IF returned.cmd.role = None THEN "USER" ELSE returned.cmd.role
    /\ r.plan = IF returned.cmd.plan = None THEN "STANDARD" ELSE returned.cmd.plan

\* role and plan as the command gives them, in upper case
UpperCaseRoleAndPlan(r) ==
    /\ r.role = IF returned.cmd.role = None THEN "USER"
                ELSE ToUpperCase(returned.cmd.role)
    /\ r.plan = IF returned.cmd.plan = None THEN "STANDARD"
                ELSE ToUpperCase(returned.cmd.plan)

NextTransactional ==
    \/ \E p \in ProcIds, cmd \in AccountCommands :
          RegisterStartWithin(p, cmd, MaxExecutions)
    \/ \E p \in ProcIds : RegisterFindByEmail(p)
    \/ \E p \in ProcIds : RegisterCredentials(p)
    \/ \E p \in ProcIds : RegisterSaveUser(p)
    \/ \E p \in ProcIds : RegisterCommit(p)
    \/ \E p \in ProcIds : RegisterRollback(p)
    \/ \E p \in ProcIds, query \in AccountQueries :
          LoginStartWithin(p, query, MaxExecutions)
    \/ \E p \in ProcIds : LoginFindByEmail(p)
    \/ \E p \in ProcIds : LoginAuthenticate(p)
    \/ \E p \in ProcIds : LoginCommit(p)
    \/ \E p \in ProcIds : LoginRollback(p)
    \/ \E p \in ProcIds, cmd \in ChangePasswordCommands :
          ChangePasswordStartWithin(p, cmd, MaxExecutions)
    \/ \E p \in ProcIds : ChangePasswordFind(p)
    \/ \E p \in ProcIds : ChangePasswordSave(p)
    \/ \E p \in ProcIds : ChangePasswordCommit(p)
    \/ \E p \in ProcIds : ChangePasswordRollback(p)
    \/ \E p \in ProcIds, userId \in RawUserIds :
          GetUserProfileStart(p, [userId |-> userId])
    \/ \E p \in ProcIds : GetUserProfileFind(p)
    \/ \E p \in ProcIds : GetUserProfileCommit(p)
    \/ \E p \in ProcIds : GetUserProfileRollback(p)
    \/ ClientAbort
    \/ TimerFires

SpecTransactional == Init /\ [][NextTransactional]_vars

\* an execution of one of the four use cases has returned after it had
\* begun a transaction
ReturnedWithTransaction ==
    /\ returned.pc = "done"
    /\ returned.kind \in {"register", "login", "changePassword", "getUserProfile"}
    /\ returned.tx # 0

\* the transaction of the execution that returned was committed on success
\* and rolled back on failure
TransactionEnded ==
    IF returned.result.success
    THEN handles[returned.tx].isCommitted /\ ~handles[returned.tx].isRolledBack
    ELSE handles[returned.tx].isRolledBack /\ ~handles[returned.tx].isCommitted

\* C22: when execute() of RegisterUser, Login, ChangePassword or
\* GetUserProfile returns, the transaction it began is no longer active: it
\* was committed if the result is a success and rolled back if the result is
\* a failure, GetUserProfile for a user id that is not stored included.
C22_TransactionEndedAtReturn ==
    ReturnedWithTransaction => TransactionEnded

\* GetUserProfile has returned USER_NOT_FOUND and its transaction is still
\* registered and active, with no cleanup timer set for it
C22_ProfileNotFoundLeavesActive ==
    /\ ReturnedWithTransaction
    /\ returned.kind = "getUserProfile"
    /\ returned.result.errorCode = "USER_NOT_FOUND"
    /\ getTransactionStatus(returned.tx) = "active"
    /\ returned.tx \notin timers

\* every other return of the four use cases ends its transaction
C22_OnlyProfileNotFoundLeaks ==
    (ReturnedWithTransaction /\ ~TransactionEnded) =>
        C22_ProfileNotFoundLeavesActive

\* ------------------------------------------- the catch blocks and rollback

\* the execution in slot p is about to call commitTransaction
AboutToCommit(p) ==
    \/ procs[p].kind = "register" /\ procs[p].pc = "userSaved"
    \/ procs[p].kind = "login" /\ procs[p].pc = "authenticated"
    \/ procs[p].kind = "changePassword" /\ procs[p].pc = "saved"
    \/ procs[p].kind = "getUserProfile" /\ procs[p].pc = "found"
          /\ procs[p].found # Null

\* commitTransaction succeeds and the logger.info(...) that follows it in
\* the try block throws: into the inner catch with the transaction committed
CommitThenLoggerThrows(p) ==
    /\ AboutToCommit(p)
    /\ commitTransaction(procs[p].tx).outcome = "ok"
    /\ Leaves(commitTransaction(procs[p].tx))
    /\ procs' = [procs EXCEPT ![p].pc = "failed", ![p].error = InjectedError]
    /\ NoReturn
    /\ UNCHANGED <<lastCall, repoVars, uuids, now, started, registered,
                   deactivated, linkVars>>

\* execute() of the four use cases under a transaction is called
ExecutesTransactional ==
    \/ \E p \in ProcIds : RegisterStart(p, BaseCommand)
    \/ \E p \in ProcIds, query \in {BaseQuery, [BaseQuery EXCEPT !.password = "Secret1x"]} :
          LoginStart(p, query)
    \/ \E p \in ProcIds, cmd \in ChangePasswordCommands :
          ChangePasswordStartWithin(p, cmd, MaxExecutions)
    \/ \E p \in ProcIds, userId \in DomainUserIds :
          GetUserProfileStart(p, [userId |-> userId])

\* a step of a use case under a transaction: the call it awaited returned,
\* or threw
ContinuesTransactional(p) ==
    \/ RegisterFindByEmail(p)
    \/ RegisterCredentials(p)
    \/ RegisterSaveUser(p)
    \/ RegisterCommit(p)
    \/ RegisterRollback(p)
    \/ LoginFindByEmail(p)
    \/ LoginAuthenticate(p)
    \/ LoginCommit(p)
    \/ LoginRollback(p)
    \/ ChangePasswordFind(p)
    \/ ChangePasswordSave(p)
    \/ ChangePasswordCommit(p)
    \/ ChangePasswordRollback(p)
    \/ GetUserProfileFind(p)
    \/ GetUserProfileCommit(p)
    \/ GetUserProfileRollback(p)
    \/ AwaitedCallThrows(p)
    \/ CommitThenLoggerThrows(p)
    \/ RollbackThrows(p)

\* the four use cases as interleaved executions, every awaited call and the
\* logger free to throw
NextRollback ==
    \/ ExecutesTransactional
    \/ \E p \in ProcIds : ContinuesTransactional(p)
    \/ TimerFires

SpecRollback == Init /\ [][NextRollback]_vars

\* C23: in RegisterUser, Login, ChangePassword and GetUserProfile
\* rollbackTransaction is called at most once per execution and only for a
\* transaction that is still active, never after commitTransaction has
\* succeeded for it; when the rollback itself throws, the result still
\* carries the original error.
C23_RollbackOnlyOfActiveTransaction ==
    ReturnedWithTransaction =>
        /\ Len(returned.rollbacks) <= 1
        /\ handles[returned.tx].isCommitted => returned.rollbacks = <<>>
        /\ \A i \in 1..Len(returned.rollbacks) :
              /\ returned.rollbacks[i].status = "active"
              /\ ~returned.result.success
              /\ returned.result.error = returned.error
              /\ returned.result.errorCode = UseCaseErrorCode(returned.kind)
              /\ returned.rollbacks[i].outcome = "ok" =>
                    handles[returned.tx].isRolledBack

\* an execution has returned its original error after its rollback threw
C23_Witness ==
    /\ ReturnedWithTransaction
    /\ Len(returned.rollbacks) = 1
    /\ returned.rollbacks[1].outcome # "ok"
    /\ returned.result.error = returned.error
    /\ returned.error # Null

\* an execution has returned an error after its commit succeeded, without a
\* call of rollbackTransaction
C23_ErrorAfterCommit ==
    /\ ReturnedWithTransaction
    /\ ~returned.result.success
    /\ handles[returned.tx].isCommitted
    /\ returned.rollbacks = <<>>

\* --------------------------------------- password changes next to logins

\* RegisterUser, Login and ChangePassword for one user, as interleaved
\* executions
NextPassword ==
    \/ \E p \in ProcIds : RegisterStartWithin(p, BaseCommand, MaxAccountExecutions)
    \/ \E p \in ProcIds : RegisterFindByEmail(p)
    \/ \E p \in ProcIds : RegisterCredentials(p)
    \/ \E p \in ProcIds : RegisterSaveUser(p)
    \/ \E p \in ProcIds : RegisterCommit(p)
    \/ \E p \in ProcIds : RegisterRollback(p)
    \/ \E p \in ProcIds, query \in AccountQueries :
          LoginStartWithin(p, query, MaxAccountExecutions)
    \/ \E p \in ProcIds : LoginFindByEmail(p)
    \/ \E p \in ProcIds : LoginAuthenticate(p)
    \/ \E p \in ProcIds : LoginCommit(p)
    \/ \E p \in ProcIds : LoginRollback(p)
    \/ \E p \in ProcIds, cmd \in ChangePasswordCommands :
          ChangePasswordStartWithin(p, cmd, MaxAccountExecutions)
    \/ \E p \in ProcIds : ChangePasswordFind(p)
    \/ \E p \in ProcIds : ChangePasswordSave(p)
    \/ \E p \in ProcIds : ChangePasswordCommit(p)
    \/ \E p \in ProcIds : ChangePasswordRollback(p)
    \/ TimerFires

SpecPassword == Init /\ [][NextPassword]_vars

\* the new passwords a ChangePassword command can set
NewPasswords ==
    {cmd.newPassword : cmd \in {c \in ChangePasswordCommands :
                                   ChangePasswordValidation(c) = Null}}

\* changePassword(u, current, n) has just returned success
PasswordChanged(u, n) ==
    /\ returned.kind = "changePassword"
    /\ returned.pc = "done"
    /\ returned.result.success
    /\ returned.cmd.userId = u
    /\ returned.cmd.newPassword = n

\* what C24 says of the record stored for u once the password is n
StoredPasswordIs(u, n) ==
    /\ u \in DOMAIN credentials
    /\ PasswordCompare(credentials[u].password, n)
    /\ authenticateUserError(credentials[u], n) = Null
    /\ authenticateUserError(credentials[u], BaseCommand.password) # Null

\* C24: when changePassword(u, current, n) returns success and the
\* executions interleaved with it have all finished (none is left to run, so
\* no later changePassword has run), the password hash stored for u is the
\* hash of n: a login with n succeeds and one with the old password fails.
C24_PasswordChangeSurvivesLogin ==
    \A u \in DomainUserIds, n \in NewPasswords :
        (PasswordChanged(u, n) /\ AllReturned) => StoredPasswordIs(u, n)

\* the same for every later state in which nothing is in flight.  (Every
\* command that passes validation sets the same new password, so a later
\* changePassword cannot set another.)
C24_PasswordChangeSurvivesLater ==
    \A u \in DomainUserIds, n \in NewPasswords :
        [](PasswordChanged(u, n) => [](AllReturned => StoredPasswordIs(u, n)))

\* one registration, one login and one password change were executed; the
\* password change has returned success, nothing is in flight, and the stored
\* hash is that of the password the user registered with
C24_LoginRestoredOldPassword ==
    /\ started = 3
    /\ AllReturned
    /\ \E n \in NewPasswords : PasswordChanged(1, n)
    /\ PasswordCompare(credentials[1].password, BaseCommand.password)
    /\ credentials[1].lastLoginAt # NoDate

\* --------------------------- the credentials repository called on its own

\* InMemoryUserCredentialsRepository.delete(userId): the record and the
\* index entry of its email, if the record is stored
CredentialsDelete(userId) ==
    IF userId \in DOMAIN credentials
    THEN /\ emailToUserId' =
               [e \in DOMAIN emailToUserId \ {EmailValue(credentials[userId].email)}
                   |-> emailToUserId[e]]
         /\ credentials' = [u \in DOMAIN credentials \ {userId} |-> credentials[u]]
    ELSE UNCHANGED <<credentials, emailToUserId>>

\* save(credentials) with a record made for this user id and email
CredentialsRepositorySaveOf(userId, email, plain) ==
    /\ CredentialsSave(UserCredentialsCreate(email, PasswordCreate(plain), userId))
    /\ RepositoryCall("credentials.save", userId, 0,
                      UserCredentialsCreate(email, PasswordCreate(plain), userId))
    /\ UNCHANGED <<txVars, lastCall, users, procs, uuids, now, started,
                   registered, deactivated, linkVars>>

\* delete(userId)
CredentialsRepositoryDelete(userId) ==
    /\ CredentialsDelete(userId)
    /\ RepositoryCall("credentials.delete", userId, 0, Null)
    /\ UNCHANGED <<txVars, lastCall, users, procs, uuids, now, started,
                   registered, deactivated, linkVars>>

\* findByEmail(email)
CredentialsRepositoryFindByEmail(email) ==
    /\ returned' = [IdleProc EXCEPT !.kind = "credentials.findByEmail",
                                    !.pc = "done", !.cmd = [email |-> email],
                                    !.found = CredentialsFindByEmail(email)]
    /\ UNCHANGED <<txVars, lastCall, repoVars, procs, uuids, now, started,
                   registered, deactivated, linkVars>>

\* any sequence of save, delete and findByEmail calls on the repository
NextCredentials ==
    \/ \E userId \in DomainUserIds, email \in DomainEmails,
          plain \in {"Passw0rd", "Secret1x"} :
          CredentialsRepositorySaveOf(userId, email, plain)
    \/ \E userId \in DomainUserIds : CredentialsRepositoryDelete(userId)
    \/ \E email \in DomainEmails : CredentialsRepositoryFindByEmail(email)

SpecCredentials == Init /\ [][NextCredentials]_vars

\* C25: in every state of InMemoryUserCredentialsRepository reached by save
\* and delete calls, every entry email -> userId of emailToUserId points to
\* a stored record with that user id and that email, and every stored record
\* is the one findByEmail returns for its own email.
C25_IndexAndRecordsAgree ==
    /\ \A e \in DOMAIN emailToUserId :
          /\ emailToUserId[e] \in DOMAIN credentials
          /\ credentials[emailToUserId[e]].userId = emailToUserId[e]
          /\ ToLowerCase(credentials[emailToUserId[e]].email) = e
    /\ \A u \in DOMAIN credentials :
          CredentialsFindByEmail(credentials[u].email) = credentials[u]

\* two records are stored with one email: findByEmail returns the one saved
\* last, the other is reachable by its user id only
C25_RecordUnreachableByEmail ==
    \E u \in DOMAIN credentials, v \in DOMAIN credentials :
        /\ u # v
        /\ ToLowerCase(credentials[u].email) = ToLowerCase(credentials[v].email)
        /\ CredentialsFindByEmail(credentials[u].email) = credentials[v]

\* an index entry points to a record that carries another email
C25_StaleIndexEntry ==
    \E e \in DOMAIN emailToUserId :
        /\ emailToUserId[e] \in DOMAIN credentials
        /\ ToLowerCase(credentials[emailToUserId[e]].email) # e

\* a stored record whose email has no index entry: findByEmail returns null
C25_RecordWithoutIndexEntry ==
    \E u \in DOMAIN credentials :
        ToLowerCase(credentials[u].email) \notin DOMAIN emailToUserId

\* ------------------------------------------------- pages of GetUsersUseCase

\* the pages asked for: offset and limit absent (0), small, and above the
\* maximum, with and without a name or a domain
PagedQueries ==
    {[offset |-> o, limit |-> l, name |-> n, domain |-> d] :
        o \in {0, 1}, l \in {0, 1, 150}, n \in {None, "john"}, d \in {None, "x.io"}}

\* users are created through UserDomainService and listed through
\* GetUsersUseCase, one call after another
NextGetUsers ==
    \/ /\ AllReturned
       /\ \E p \in ProcIds, email \in {"a@x.io", "b@x.io"}, name \in DomainNames :
             CreateUserFindWithin(p, email, name, MaxUserExecutions)
    \/ \E p \in ProcIds : CreateUserSave(p)
    \/ /\ AllReturned
       /\ \E p \in ProcIds, query \in PagedQueries :
             GetUsersExecuteWithin(p, query, MaxUserExecutions)
    \/ \E p \in ProcIds : GetUsersReturn(p)

SpecGetUsers == Init /\ [][NextGetUsers]_vars

\* the stored users a query matches: all of them without a filter, those
\* whose name contains the fragment, or else those of the domain
Matching(query) ==
    {i \in 1..Len(users) :
        IF query.name # None THEN NameIncludes(users[i].name, query.name)
        ELSE IF query.domain # None THEN EmailDomain(users[i].email) = query.domain
        ELSE TRUE}

\* GetUsersUseCase.execute has returned its result
GetUsersReturned == returned.kind = "getUsers" /\ returned.pc = "done"

\* what C26 says of the page returned
PageAgrees ==
    LET page == returned.result.data
        query == returned.cmd
    IN /\ returned.result.success
       /\ page.offset = query.offset
       /\ page.limit = (IF query.limit = 0 THEN 10
                        ELSE IF query.limit > 100 THEN 100 ELSE query.limit)
       /\ page.limit <= 100
       /\ Len(page.users) <= page.limit
       /\ page.total = Cardinality(Matching(query))
       /\ page.hasMore <=>
             page.offset + Len(page.users) < Cardinality(Matching(query))

\* C26: for every GetUsers query, with or without a name or domain filter,
\* the result reports offset (default 0) and limit (default 10, at most
\* 100), contains at most limit users, reports as total the number of users
\* matching the query, and has hasMore true exactly when matching users
\* exist beyond those returned.
C26_EveryPageAgrees == GetUsersReturned => PageAgrees

\* the same for the queries without a name and without a domain
C26_UnfilteredPageAgrees ==
    (GetUsersReturned /\ returned.cmd.name = None /\ returned.cmd.domain = None)
        => PageAgrees

\* a query with a filter and limit 1 has returned both matching users and
\* hasMore true
C26_FilteredPageExceedsLimit ==
    /\ GetUsersReturned
    /\ returned.cmd.name # None \/ returned.cmd.domain # None
    /\ returned.result.data.limit = 1
    /\ Len(returned.result.data.users) = 2
    /\ returned.result.data.hasMore

\* ------------------------------------------ calls on the handle itself

\* transaction.commit() called on the handle: the flag is set, the manager
\* is not involved
ClientHandleCommit ==
    \E id \in TxIds :
        /\ handles' = HandleCommit(handles, id)
        /\ UNCHANGED <<activeTransactions, timers>>
        /\ Called("handle.commit", id, "ok")
        /\ UNCHANGED appVars

\* transaction.rollback() called on the handle
ClientHandleRollback ==
    \E id \in TxIds :
        /\ handles' = HandleRollback(handles, id)
        /\ UNCHANGED <<activeTransactions, timers>>
        /\ Called("handle.rollback", id, "ok")
        /\ UNCHANGED appVars

\* a client that calls the manager and the handles it was given
NextHandle ==
    \/ NextTx
    \/ ClientHandleCommit
    \/ ClientHandleRollback

SpecHandle == Init /\ [][NextHandle]_vars

\* C27: for every handle returned by beginTransaction, isCommitted and
\* isRolledBack are never both true, whatever calls are made on it, through
\* the manager or directly on the handle.
C27_NeverCommittedAndRolledBack ==
    \A id \in TxIds : ~(handles[id].isCommitted /\ handles[id].isRolledBack)

\* a handle with both flags set, which the manager reports as committed
C27_BothFlagsSet ==
    \E id \in TxIds :
        /\ handles[id].isCommitted
        /\ handles[id].isRolledBack
        /\ id \in activeTransactions
        /\ getTransactionStatus(id) = "committed"

\* ----------------------------------------------- the cleanup timers fire

\* the cleanup timer set for transaction id fires
TimerFiresFor(id) ==
    /\ id \in timers
    /\ TimerFires
    /\ id \notin timers'

\* the manager and its client, with every timer that is set firing in the end
SpecTxFair == SpecTx /\ \A id \in 1..MaxTx : WF_vars(TimerFiresFor(id))

\* commitTransaction or rollbackTransaction has succeeded for the handle
Ended(id) ==
    /\ id \in TxIds
    /\ handles[id].isCommitted \/ handles[id].isRolledBack

\* C28: every transaction for which commitTransaction or
\* rollbackTransaction succeeded is eventually removed from the registry, its
\* status then reading not_found, given that the cleanup timers fire; a
\* cleanup timer removes the transaction it was set for and no other, and it
\* is only ever set for a transaction that has ended, so it never removes an
\* active one.
C28_EndedTransactionsAreRemoved ==
    /\ \A id \in 1..MaxTx :
          Ended(id) ~> (getTransactionStatus(id) = "not_found")
    /\ [](\A id \in timers : Ended(id))
    /\ [][(timers' # timers /\ timers' \subseteq timers) =>
             \E id \in timers :
                /\ timers' = timers \ {id}
                /\ activeTransactions' = activeTransactions \ {id}
                /\ getTransactionStatus(id) # "active"
                /\ handles' = handles]_vars

\* the transaction committed by the client's last call has been removed by
\* its timer while another transaction is still registered and active
C28_Witness ==
    /\ lastCall.op = "commit"
    /\ lastCall.outcome = "ok"
    /\ Ended(lastCall.id)
    /\ lastCall.id \notin timers
    /\ getTransactionStatus(lastCall.id) = "not_found"
    /\ \E other \in TxIds : getTransactionStatus(other) = "active"


\* ------------------------------------------------- InMemoryLinkRepository

\* link ids tried, and the dates an expiration date is set to
MaxLinks == 2
LinkIds == 1..MaxLinks
ExpirationDates == {NoDate, MaxCreatedAtMs}

\* new Link(id, originalUrl, code, shortUrl, isActive, isDeleted,
\* expirationDate, isOneTimeLink, isOneTimeLinkUsed, createdAt)
NewLink(id, isActive) ==
    [id |-> id, originalUrl |-> "https://x.io/long", code |-> "ABC123",
     shortUrl |-> "https://l.io/ABC123", isActive |-> isActive,
     isDeleted |-> FALSE, expirationDate |-> NoDate, isOneTimeLink |-> FALSE,
     isOneTimeLinkUsed |-> FALSE, createdAt |-> 0]

\* Link.activate / deactivate / setExpirationDate / setIsOneTimeLink /
\* setIsOneTimeLinkUsed: each returns a new Link and leaves `this` as it is
LinkActivate(link) == [link EXCEPT !.isActive = TRUE]
LinkDeactivate(link) == [link EXCEPT !.isActive = FALSE]
LinkSetExpirationDate(link, expirationDate) ==
    [link EXCEPT !.expirationDate = expirationDate]
LinkSetIsOneTimeLink(link, isOneTimeLink) ==
    [link EXCEPT !.isOneTimeLink = isOneTimeLink]
LinkSetIsOneTimeLinkUsed(link, isOneTimeLinkUsed) ==
    [link EXCEPT !.isOneTimeLinkUsed = isOneTimeLinkUsed]

\* `this.transactionActive ? this.transactionLinks! : this.links`
CurrentLinks == IF transactionActive THEN transactionLinks.map ELSE links

\* links.set / links.delete on the map CurrentLinks names
WriteLinks(map) ==
    IF transactionActive
    THEN /\ transactionLinks' = [map |-> map]
         /\ UNCHANGED <<links, transactionActive>>
    ELSE /\ links' = map
         /\ UNCHANGED <<transactionActive, transactionLinks>>

\* findById(id), and findAll() as a set
LinkFindById(id) ==
    IF id \in DOMAIN CurrentLinks THEN CurrentLinks[id] ELSE Null
LinkFindAll == {CurrentLinks[id] : id \in DOMAIN CurrentLinks}

\* the call made on the link repository, its arguments and what it returned
LinkCall(op, id, value, found) ==
    /\ returned' = [IdleProc EXCEPT !.kind = op, !.pc = "done",
                                    !.cmd = [id |-> id, value |-> value],
                                    !.found = found]
    /\ UNCHANGED <<txVars, lastCall, repoVars, procs, uuids, now, started,
                   registered, deactivated>>

\* save(link)
LinkRepositorySave(link) ==
    /\ WriteLinks((link.id :> link) @@ CurrentLinks)
    /\ LinkCall("link.save", link.id, link.isActive, Null)

\* findById(id)
LinkRepositoryFindById(id) ==
    /\ LinkCall("link.findById", id, FALSE, LinkFindById(id))
    /\ UNCHANGED linkVars

\* delete(id)
LinkRepositoryDelete(id) ==
    /\ WriteLinks([i \in DOMAIN CurrentLinks \ {id} |-> CurrentLinks[i]])
    /\ LinkCall("link.delete", id, FALSE, Null)

\* deactivate(id): link.deactivate() is called and its value dropped, then
\* the link that was looked up is set under its id again
LinkRepositoryDeactivate(id) ==
    /\ IF LinkFindById(id) # Null
       THEN LET link == LinkFindById(id)
                dropped == LinkDeactivate(link)
            IN WriteLinks((id :> link) @@ CurrentLinks)
       ELSE UNCHANGED linkVars
    /\ LinkCall("link.deactivate", id, FALSE, Null)

\* activate(id)
LinkRepositoryActivate(id) ==
    /\ IF LinkFindById(id) # Null
       THEN LET link == LinkFindById(id)
                dropped == LinkActivate(link)
            IN WriteLinks((id :> link) @@ CurrentLinks)
       ELSE UNCHANGED linkVars
    /\ LinkCall("link.activate", id, TRUE, Null)

\* updateExpirationDate(id, expirationDate)
LinkRepositoryUpdateExpirationDate(id, expirationDate) ==
    /\ IF LinkFindById(id) # Null
       THEN LET link == LinkFindById(id)
                dropped == LinkSetExpirationDate(link, expirationDate)
            IN WriteLinks((id :> link) @@ CurrentLinks)
       ELSE UNCHANGED linkVars
    /\ LinkCall("link.updateExpirationDate", id, expirationDate, Null)

\* updateIsOneTimeLink(id, isOneTimeLink)
LinkRepositoryUpdateIsOneTimeLink(id, isOneTimeLink) ==
    /\ IF LinkFindById(id) # Null
       THEN LET link == LinkFindById(id)
                dropped == LinkSetIsOneTimeLink(link, isOneTimeLink)
            IN WriteLinks((id :> link) @@ CurrentLinks)
       ELSE UNCHANGED linkVars
    /\ LinkCall("link.updateIsOneTimeLink", id, isOneTimeLink, Null)

\* updateIsOneTimeLinkUsed(id, isOneTimeLinkUsed)
LinkRepositoryUpdateIsOneTimeLinkUsed(id, isOneTimeLinkUsed) ==
    /\ IF LinkFindById(id) # Null
       THEN LET link == LinkFindById(id)
                dropped == LinkSetIsOneTimeLinkUsed(link, isOneTimeLinkUsed)
            IN WriteLinks((id :> link) @@ CurrentLinks)
       ELSE UNCHANGED linkVars
    /\ LinkCall("link.updateIsOneTimeLinkUsed", id, isOneTimeLinkUsed, Null)

\* beginTransaction(): a new, empty map takes the writes and answers the reads
LinkRepositoryBeginTransaction ==
    /\ transactionActive' = TRUE
    /\ transactionLinks' = [map |-> <<>>]
    /\ UNCHANGED links
    /\ LinkCall("link.beginTransaction", 0, FALSE, Null)

\* commitTransaction()
LinkRepositoryCommitTransaction ==
    /\ transactionActive' = FALSE
    /\ transactionLinks' = Null
    /\ UNCHANGED links
    /\ LinkCall("link.commitTransaction", 0, FALSE, Null)

\* rollbackTransaction()
LinkRepositoryRollbackTransaction ==
    /\ transactionActive' = FALSE
    /\ transactionLinks' = Null
    /\ UNCHANGED links
    /\ LinkCall("link.rollbackTransaction", 0, FALSE, Null)

\* a client of the link repository: any call, in any order
NextLinks ==
    \/ \E id \in LinkIds, isActive \in BOOLEAN :
          LinkRepositorySave(NewLink(id, isActive))
    \/ \E id \in LinkIds : LinkRepositoryFindById(id)
    \/ \E id \in LinkIds : LinkRepositoryDelete(id)
    \/ \E id \in LinkIds : LinkRepositoryDeactivate(id)
    \/ \E id \in LinkIds : LinkRepositoryActivate(id)
    \/ \E id \in LinkIds, expirationDate \in ExpirationDates :
          LinkRepositoryUpdateExpirationDate(id, expirationDate)
    \/ \E id \in LinkIds, isOneTimeLink \in BOOLEAN :
          LinkRepositoryUpdateIsOneTimeLink(id, isOneTimeLink)
    \/ \E id \in LinkIds, isOneTimeLinkUsed \in BOOLEAN :
          LinkRepositoryUpdateIsOneTimeLinkUsed(id, isOneTimeLinkUsed)
    \/ LinkRepositoryBeginTransaction
    \/ LinkRepositoryCommitTransaction
    \/ LinkRepositoryRollbackTransaction

SpecLinks == Init /\ [][NextLinks]_vars

\* the call the step just taken made on the link repository
LinkStep(op) == returned'.kind = op

\* the links findAll() returns from the map `links`, whatever the transaction
StoredLinks == {links[id] : id \in DOMAIN links}

\* what commitTransaction() is to do with the links of the transaction
CommitKeepsSaved ==
    (LinkStep("link.commitTransaction") /\ transactionActive) =>
        /\ \A id \in DOMAIN transactionLinks.map :
              /\ LinkFindById(id)' = transactionLinks.map[id]
              /\ transactionLinks.map[id] \in LinkFindAll'
        /\ \A id \in DOMAIN links : LinkFindById(id)' # Null

\* what rollbackTransaction() is to do with them
RollbackDropsSaved ==
    (LinkStep("link.rollbackTransaction") /\ transactionActive) =>
        /\ LinkFindAll' = StoredLinks
        /\ \A id \in LinkIds :
              LinkFindById(id)' = IF id \in DOMAIN links THEN links[id] ELSE Null

\* C29: a link saved between beginTransaction() and commitTransaction() is
\* returned by findById and findAll after commitTransaction(); one saved
\* between beginTransaction() and rollbackTransaction() is not; the links
\* stored before beginTransaction() are present after either.
C29_CommitKeepsRollbackDrops == [][CommitKeepsSaved /\ RollbackDropsSaved]_vars

\* C29, the part on rollbackTransaction() alone: findById and findAll answer
\* after it as they did before beginTransaction().
C29_RollbackRestores == [][RollbackDropsSaved]_vars

\* what deactivate, activate and the three updates are to leave behind
StoresChanged(op, id, changed) ==
    (LinkStep(op) /\ returned'.cmd.id = id) =>
        IF LinkFindById(id) # Null
        THEN /\ LinkFindById(id)' = changed
             /\ \A other \in LinkIds \ {id} :
                   LinkFindById(other)' = LinkFindById(other)
        ELSE UNCHANGED linkVars

\* the same calls with an id that is not stored
UnknownIdChangesNothing ==
    (/\ returned'.kind \in {"link.deactivate", "link.activate",
                            "link.updateExpirationDate",
                            "link.updateIsOneTimeLink",
                            "link.updateIsOneTimeLinkUsed"}
     /\ LinkFindById(returned'.cmd.id) = Null) => UNCHANGED linkVars

\* C30: after deactivate(id) for a stored link findById(id) returns the link
\* with isActive false, after activate(id) with isActive true, after
\* updateExpirationDate, updateIsOneTimeLink and updateIsOneTimeLinkUsed with
\* the new value, every other field as before; for an id that is not stored
\* the calls change nothing.
C30_UpdatesAreStored ==
    [][\A id \in LinkIds :
          LET link == LinkFindById(id)
              value == returned'.cmd.value
          IN /\ StoresChanged("link.deactivate", id, LinkDeactivate(link))
             /\ StoresChanged("link.activate", id, LinkActivate(link))
             /\ StoresChanged("link.updateExpirationDate", id,
                              LinkSetExpirationDate(link, value))
             /\ StoresChanged("link.updateIsOneTimeLink", id,
                              LinkSetIsOneTimeLink(link, value))
             /\ StoresChanged("link.updateIsOneTimeLinkUsed", id,
                              LinkSetIsOneTimeLinkUsed(link, value))]_vars

\* C30, the part on ids that are not stored.
C30_UnknownIdChangesNothing == [][UnknownIdChangesNothing]_vars

\* C30: deactivate(id) has just returned for a stored link, and the link
\* findById(id) returns is still active.
C30_StillActiveAfterDeactivate ==
    /\ returned.kind = "link.deactivate"
    /\ LinkFindById(returned.cmd.id) # Null
    /\ LinkFindById(returned.cmd.id).isActive

====
